---------------------------- MODULE Spec2Model ----------------------------
(***************************************************************************)
(* GKeyLib: streaming compressor and decompressor for Gordon Key's format. *)
(*                                                                         *)
(* The model follows the C sources function by function: the history ring  *)
(* (RingBuffer.c and the ring search routines), the bit accumulators       *)
(* (write_bits, read_bits), the format helper (GKey_get_read_size_bits),   *)
(* the match finder (find_sequence) and the two suspendable state machines *)
(* (gkeycomp_compress, gkeydecomp_decompress).  One call of a codec        *)
(* function is one action of the model; the callers' protocols (which      *)
(* piece of input is supplied and which output window is offered on each   *)
(* call) are the nondeterministic inputs.                                  *)
(*                                                                         *)
(* Memory is modelled by value: an input pointer is the sequence of bytes  *)
(* from the pointer onward, an output pointer is the sequence of bytes     *)
(* written through it so far, and a pointer into the ring's own buffer is  *)
(* an index (so that a self-copy reads the buffer as memmove does).        *)
(* Accumulator values stay below 2^17 for the history sizes explored here, *)
(* so the width of 'unsigned long' does not come into play.                *)
(***************************************************************************)
EXTENDS Integers, Sequences, FiniteSets, TLC

VARIABLES
  enc,      \* a compressor, its parameter block and the last status returned
  encB,     \* a second compressor given the same calls with an ample buffer
  dec,      \* a decompressor, its parameter block and the last status
  decB,     \* a second decompressor given the same calls with an ample buffer
  src,      \* the caller's data: done (handed over so far), rest (to hand over)
  trace     \* what the caller has done so far (counters of its calls)

vars == <<enc, encB, dec, decB, src, trace>>

---------------------------------------------------------------------------
(* Bounds of the exploration *)

MaxSmallLog2 == 2   \* history_log_2 ranges over 0..MaxSmallLog2 and two more
TieLog2      == 4   \* a history where a copy can cost what its literals cost
BigLog2      == 5   \* a history large enough for literal runs to be cheaper
NumSyms      == 2   \* number of distinct input byte values
MaxInput     == 4   \* total number of input bytes offered to a compressor
MaxPiece     == 3   \* largest piece of input supplied in one call
MaxWindow    == 2   \* largest small output window (besides the ample one)
NumCodes     == 4   \* number of distinct byte values in compressed input
MaxStream    == 3   \* length of a compressed stream given to a decompressor
MaxAfter     == 2   \* calls made after a compressor has finished
CountCap     == 2   \* the caller's counters stop counting here
MaxFormatLog2 == 9  \* largest history_log_2 of the format checks
SmallPiece   == 16  \* the worked examples are supplied in pieces of this size
LargePiece   == 64  \* ... or of this size
MaxRingLog2  == 2   \* rings of 1, 2 and 4 bytes
MaxAppended  == 5   \* bytes appended to a ring between two resets
MaxWrite     == 5   \* longest single RingBuffer_write (more than the ring)
MaxRoom      == 4   \* bytes of output window, or of input, in a call on the
                    \* accumulator alone
MaxApprovals == 2   \* reports a progress callback approves before its veto

(* Program constants *)

CHAR_BIT     == 8
ULongMinBit  == 32
SIZE_MAX     == 2147483647
AmpleSize    == 200 \* an output window that never fills within the bounds
ExampleLog2  == 9   \* HistoryLog2 of the tests: the worked examples use it

MaxHistoryLog2 == ULongMinBit - CHAR_BIT
ExampleRun     == 2 ^ ExampleLog2  \* length of the repeated-byte example

---------------------------------------------------------------------------
(* Arithmetic helpers *)

LOWEST(a, b) == IF a < b THEN a ELSE b

RECURSIVE BitOr(_, _)
BitOr(a, b) ==
  IF a = 0 THEN b
  ELSE IF b = 0 THEN a
  ELSE (IF a % 2 = 1 \/ b % 2 = 1 THEN 1 ELSE 0) + 2 * BitOr(a \div 2, b \div 2)

ShiftLeft(x, n)  == x * (2 ^ n)
ShiftRight(x, n) == x \div (2 ^ n)
LowBits(x, n)    == x % (2 ^ n)

---------------------------------------------------------------------------
(* History ring: RingBuffer.c *)

RingBuffer_reset(ring) ==
  [ring EXCEPT !.write_pos = 0,
               !.filled = FALSE,
               !.buffer = [i \in 0 .. ring.size - 1 |-> 0]]

RingBuffer_init(size_log_2) ==
  RingBuffer_reset([size       |-> 2 ^ size_log_2,
                    write_pos  |-> 0,
                    filled     |-> FALSE,
                    size_log_2 |-> size_log_2,
                    buffer     |-> << >>])

RingBuffer_make(size_log_2) == RingBuffer_init(size_log_2)

(* A source pointer: into the ring's own buffer, or into caller memory. *)
RingPtr(pos)     == [inring |-> TRUE,  at |-> pos, mem |-> << >>]
MemPtr(bytes)    == [inring |-> FALSE, at |-> 0,   mem |-> bytes]
Deref(ring, s, i) ==
  IF s.inring THEN ring.buffer[s.at + i] ELSE s.mem[s.at + i + 1]

(* Faulty variants of the wrap, for comparison: one never records that    *)
(* the ring has been filled, the other wraps a byte late.                  *)
RingWriteWrapUnfilled(ring, to_copy) ==
  IF ring.write_pos + to_copy >= ring.size
  THEN [write_pos |-> 0, filled |-> ring.filled]
  ELSE [write_pos |-> ring.write_pos + to_copy, filled |-> ring.filled]

RingWriteWrapLate(ring, to_copy) ==
  IF ring.write_pos + to_copy > ring.size
  THEN [write_pos |-> 0, filled |-> TRUE]
  ELSE [write_pos |-> (ring.write_pos + to_copy) % ring.size,
        filled |-> ring.filled]

RingWriteWrap(ring, to_copy) ==
  IF ring.write_pos + to_copy >= ring.size
  THEN [write_pos |-> 0, filled |-> TRUE]
  ELSE [write_pos |-> ring.write_pos + to_copy, filled |-> ring.filled]

RECURSIVE RingBuffer_write(_, _, _)
RingBuffer_write(ring, s, n) ==
  IF n = 0 THEN ring
  ELSE
    LET to_copy == LOWEST(ring.size - ring.write_pos, n)
        moved   == [j \in 0 .. ring.size - 1 |->
                      IF j >= ring.write_pos /\ j < ring.write_pos + to_copy
                      THEN Deref(ring, s, j - ring.write_pos)
                      ELSE ring.buffer[j]]
        wrap    == RingWriteWrap(ring, to_copy)
    IN  RingBuffer_write([ring EXCEPT !.buffer = moved,
                                      !.write_pos = wrap.write_pos,
                                      !.filled = wrap.filled],
                         [s EXCEPT !.at = s.at + to_copy],
                         n - to_copy)

---------------------------------------------------------------------------
(* History ring: search routines *)

RingBuffer_read_char(ring, offset) ==
  ring.buffer[(ring.write_pos + offset) % ring.size]

(* memchr over buffer[start .. start+len-1]: index of the first match, or -1 *)
MemChr(buffer, start, c, len) ==
  LET hits == {i \in 0 .. len - 1 : buffer[start + i] = c}
  IN  IF hits = {} THEN -1
      ELSE CHOOSE i \in hits : \A j \in hits : i <= j

RingBuffer_find_char(ring, offset, n, c) ==
  LET abs_read == (ring.write_pos + offset) % ring.size
      before   == ring.write_pos > abs_read
      span1    == IF before THEN ring.write_pos - abs_read
                            ELSE ring.size - abs_read
      search   == IF before THEN TRUE ELSE ring.filled
      search1  == IF search THEN LOWEST(span1, n) ELSE span1
      match1   == IF search THEN MemChr(ring.buffer, abs_read, c, search1)
                  ELSE IF c = 0 THEN 0 ELSE -1
      again    == match1 = -1 /\ n > search1
      search2  == LOWEST(ring.write_pos, n - search1)
      match2   == MemChr(ring.buffer, 0, c, search2)
  IN  IF again
      THEN (IF match2 # -1 THEN match2 + offset + search1 ELSE SIZE_MAX)
      ELSE (IF match1 # -1 THEN match1 + offset ELSE SIZE_MAX)

(* A faulty memcmp, for comparison: the last difference decides. *)
MemCmpLast(buffer, start1, start2, len) ==
  LET diffs == {i \in 0 .. len - 1 : buffer[start1 + i] # buffer[start2 + i]}
  IN  IF diffs = {} THEN 0
      ELSE LET d == CHOOSE i \in diffs : \A j \in diffs : i >= j
           IN  IF buffer[start1 + d] < buffer[start2 + d] THEN -1 ELSE 1

(* memcmp over two ranges of the buffer: the sign of the first difference *)
MemCmp(buffer, start1, start2, len) ==
  LET diffs == {i \in 0 .. len - 1 : buffer[start1 + i] # buffer[start2 + i]}
  IN  IF diffs = {} THEN 0
      ELSE LET d == CHOOSE i \in diffs : \A j \in diffs : i <= j
           IN  IF buffer[start1 + d] < buffer[start2 + d] THEN -1 ELSE 1

CompareSpan(ring, abs_read) ==
  IF ring.write_pos > abs_read THEN ring.write_pos - abs_read
                               ELSE ring.size - abs_read

RECURSIVE CompareLoop(_, _, _, _, _, _)
CompareLoop(ring, start1, len1, start2, len2, nleft) ==
  IF nleft = 0 THEN 0
  ELSE
    LET to_compare == LOWEST(LOWEST(len1, len2), nleft)
        diff       == MemCmp(ring.buffer, start1, start2, to_compare)
        wrap1      == len1 - to_compare = 0
        wrap2      == len2 - to_compare = 0
    IN  IF diff # 0 THEN diff
        ELSE CompareLoop(ring,
               IF wrap1 THEN 0 ELSE start1 + to_compare,
               IF wrap1 THEN ring.write_pos ELSE len1 - to_compare,
               IF wrap2 THEN 0 ELSE start2 + to_compare,
               IF wrap2 THEN ring.write_pos ELSE len2 - to_compare,
               nleft - to_compare)

RingBuffer_compare(ring, offset1, offset2, n) ==
  LET abs_read1 == (ring.write_pos + offset1) % ring.size
      abs_read2 == (ring.write_pos + offset2) % ring.size
  IN  IF n = 1
      THEN ring.buffer[abs_read1] - ring.buffer[abs_read2]
      ELSE CompareLoop(ring, abs_read1, CompareSpan(ring, abs_read1),
                             abs_read2, CompareSpan(ring, abs_read2), n)

---------------------------------------------------------------------------
(* Format helper: GKey.c *)

(* A different format, for comparison: '>' in place of '>=', which the     *)
(* source notes would not match Gordon Key's format.                       *)
GKey_get_read_size_bits_gt(history_log_2, read_offset) ==
  IF history_log_2 > 0 /\ read_offset > 2 ^ (history_log_2 - 1)
  THEN history_log_2 - 1
  ELSE history_log_2

GKey_get_read_size_bits(history_log_2, read_offset) ==
  IF history_log_2 > 0 /\ read_offset >= 2 ^ (history_log_2 - 1)
  THEN history_log_2 - 1
  ELSE history_log_2

---------------------------------------------------------------------------
(* Parameter block (GKeyParameters) and status values (GKeyStatus).        *)
(* in_buffer is the bytes from the input pointer onward; out_buffer is     *)
(* either null or the bytes written through the pointer so far.  A         *)
(* progress callback, when present, approves cb_arg more reports and then  *)
(* vetoes.                                                                 *)

GKeyStatus_OK             == "OK"
GKeyStatus_BadInput       == "BadInput"
GKeyStatus_TruncatedInput == "TruncatedInput"
GKeyStatus_BufferOverflow == "BufferOverflow"
GKeyStatus_Aborted        == "Aborted"
GKeyStatus_Finished       == "Finished"

NullBuffer     == [null |-> TRUE,  written |-> << >>]
Buffer(bytes)  == [null |-> FALSE, written |-> bytes]

GKeyParameters(in_buffer, out_buffer, out_size) ==
  [in_buffer  |-> in_buffer,
   in_size    |-> Len(in_buffer),
   out_buffer |-> out_buffer,
   out_size   |-> out_size,
   prog_cb    |-> "NULL",
   cb_arg     |-> 0]

(* The caller's progress function: the context counts the approvals left. *)
CallProgress(params) ==
  [continue |-> params.cb_arg > 0,
   params   |-> [params EXCEPT !.cb_arg = IF @ > 0 THEN @ - 1 ELSE @]]

---------------------------------------------------------------------------
(* Compressor: bit writer *)

UINT_MAX == 65535  \* the flush marker; any value above ULongMinBit serves

(* A faulty loop, for comparison: without a buffer it counts nothing. *)
RECURSIVE WriteBitsDrainUncounted(_)
WriteBitsDrainUncounted(w) ==
  IF w.acc_nbits < CHAR_BIT THEN w
  ELSE IF ~w.out_buffer.null /\ w.out_size = 0
  THEN [w EXCEPT !.success = FALSE]
  ELSE WriteBitsDrainUncounted(
         [w EXCEPT !.acc        = ShiftRight(w.acc, CHAR_BIT),
                   !.acc_nbits  = w.acc_nbits - CHAR_BIT,
                   !.out_buffer = IF w.out_buffer.null THEN w.out_buffer
                                  ELSE Buffer(Append(w.out_buffer.written,
                                                     w.acc % 256)),
                   !.out_size   = IF w.out_buffer.null THEN w.out_size
                                                       ELSE w.out_size - 1,
                   !.out_total  = w.out_total + 1])

(* The loop that outputs the accumulator's whole bytes. *)
RECURSIVE WriteBitsDrain(_)
WriteBitsDrain(w) ==
  IF w.acc_nbits < CHAR_BIT THEN w
  ELSE IF ~w.out_buffer.null /\ w.out_size = 0
  THEN [w EXCEPT !.success = FALSE]
  ELSE WriteBitsDrain(
         [w EXCEPT !.acc        = ShiftRight(w.acc, CHAR_BIT),
                   !.acc_nbits  = w.acc_nbits - CHAR_BIT,
                   !.out_buffer = IF w.out_buffer.null THEN w.out_buffer
                                  ELSE Buffer(Append(w.out_buffer.written,
                                                     w.acc % 256)),
                   !.out_size   = IF w.out_buffer.null THEN w.out_size + 1
                                                       ELSE w.out_size - 1,
                   !.out_total  = w.out_total + 1])

(* A faulty padding, for comparison: pads even a whole number of bytes. *)
WriteBitsPadAlways(acc_nbits) ==
  acc_nbits + (CHAR_BIT - (acc_nbits % CHAR_BIT))

WriteBitsPad(acc_nbits) ==
  IF acc_nbits % CHAR_BIT # 0
  THEN acc_nbits + (CHAR_BIT - (acc_nbits % CHAR_BIT))
  ELSE acc_nbits

(* A faulty insertion, for comparison: inserts the bits even when the      *)
(* accumulator could not be drained, so that a retry inserts them again.   *)
WriteBitsInsertAlways(w, nbits, bits) ==
  [w EXCEPT !.acc       = BitOr(w.acc, ShiftLeft(bits, w.acc_nbits)),
            !.acc_nbits = w.acc_nbits + nbits]

WriteBitsInsert(w, nbits, bits) ==
  IF w.success
  THEN [w EXCEPT !.acc       = BitOr(w.acc, ShiftLeft(bits, w.acc_nbits)),
                 !.acc_nbits = w.acc_nbits + nbits]
  ELSE w

(* What write_bits leaves behind: the accumulator and the output stream. *)
WriteBitsStore(comp, params, w) ==
  [comp    |-> [comp EXCEPT !.out_total = w.out_total,
                            !.acc       = w.acc,
                            !.acc_nbits = w.acc_nbits],
   params  |-> [params EXCEPT !.out_buffer = w.out_buffer,
                              !.out_size   = w.out_size],
   success |-> w.success]

write_bits(comp, params, nbits, bits) ==
  WriteBitsStore(comp, params,
    WriteBitsInsert(
      WriteBitsDrain([acc        |-> comp.acc,
                      acc_nbits  |-> IF nbits = UINT_MAX
                                     THEN WriteBitsPad(comp.acc_nbits)
                                     ELSE comp.acc_nbits,
                      out_buffer |-> params.out_buffer,
                      out_size   |-> params.out_size,
                      out_total  |-> comp.out_total,
                      success    |-> TRUE]),
      IF nbits = UINT_MAX THEN 0 ELSE nbits,
      bits))

(* Compressor's ring writer: the literals at s, as many as can be written. *)
RECURSIVE comp_ring_writer_loop(_, _, _, _, _)
CompRingWriterStep(ring, s, n, nout, w) ==
  IF w.success
  THEN comp_ring_writer_loop(ring, [codec |-> w.comp, params |-> w.params],
                             s, n, nout + 1)
  ELSE [arg |-> [codec |-> w.comp, params |-> w.params], n |-> nout]

comp_ring_writer_loop(ring, arg, s, n, nout) ==
  IF nout >= n THEN [arg |-> arg, n |-> nout]
  ELSE CompRingWriterStep(ring, s, n, nout,
         write_bits(arg.codec, arg.params, CHAR_BIT + 1,
                    ShiftLeft(Deref(ring, s, nout), 1)))

comp_ring_writer(ring, arg, s, n) == comp_ring_writer_loop(ring, arg, s, n, 0)

---------------------------------------------------------------------------
(* Decompressor's ring writer: copies to the output window what fits. *)

DerefRange(ring, s, n) == [i \in 1 .. n |-> Deref(ring, s, i - 1)]

(* A faulty writer, for comparison: it never fills the last byte of the    *)
(* window.                                                                 *)
decomp_ring_writer_short(ring, arg, s, n) ==
  LET params == arg.params
      fit    == IF params.out_buffer.null THEN n
                ELSE IF params.out_size = 0 THEN 0
                ELSE IF params.out_size <= n THEN params.out_size - 1 ELSE n
      after  == IF params.out_buffer.null
                THEN [params EXCEPT !.out_size = params.out_size + n]
                ELSE [params EXCEPT
                        !.out_buffer = Buffer(params.out_buffer.written
                                              \o DerefRange(ring, s, fit)),
                        !.out_size   = params.out_size - fit]
  IN  [arg |-> [codec  |-> [arg.codec EXCEPT !.out_total = @ + fit],
                params |-> after],
       n   |-> fit]

decomp_ring_writer(ring, arg, s, n) ==
  LET params == arg.params
      fit    == IF params.out_buffer.null THEN n
                ELSE IF params.out_size < n THEN params.out_size ELSE n
      after  == IF params.out_buffer.null
                THEN [params EXCEPT !.out_size = params.out_size + n]
                ELSE [params EXCEPT
                        !.out_buffer = Buffer(params.out_buffer.written
                                              \o DerefRange(ring, s, fit)),
                        !.out_size   = params.out_size - fit]
  IN  [arg |-> [codec  |-> [arg.codec EXCEPT !.out_total = @ + fit],
                params |-> after],
       n   |-> fit]

---------------------------------------------------------------------------
(* History ring: RingBuffer_copy, with the two writers it is called with *)

CallWriteFn(write_cb, ring, cb_arg, s, n) ==
  CASE write_cb = "NULL"   -> [arg |-> cb_arg, n |-> n]
    [] write_cb = "comp"   -> comp_ring_writer(ring, cb_arg, s, n)
    [] write_cb = "decomp" -> decomp_ring_writer(ring, cb_arg, s, n)

RECURSIVE RingCopyLoop(_, _, _, _)
(* A faulty step, for comparison: the whole sub-range is written to the    *)
(* ring whatever the callback accepted.                                    *)
RingCopyStepWhole(c, write_cb, offset, n, s, to_copy, r) ==
  RingCopyLoop([ring    |-> RingBuffer_write(c.ring, s, to_copy),
                arg     |-> r.arg,
                total   |-> c.total + r.n,
                copied  |-> r.n,
                to_copy |-> to_copy],
               write_cb, offset, n)

RingCopyStep(c, write_cb, offset, n, s, to_copy, r) ==
  RingCopyLoop([ring    |-> RingBuffer_write(c.ring, s, r.n),
                arg     |-> r.arg,
                total   |-> c.total + r.n,
                copied  |-> r.n,
                to_copy |-> to_copy],
               write_cb, offset, n)

RingCopyChunk(c, write_cb, offset, n, read_pos) ==
  RingCopyStep(c, write_cb, offset, n, RingPtr(read_pos),
               LOWEST(c.ring.size - read_pos, n - c.total),
               CallWriteFn(write_cb, c.ring, c.arg, RingPtr(read_pos),
                           LOWEST(c.ring.size - read_pos, n - c.total)))

RingCopyLoop(c, write_cb, offset, n) ==
  IF ~(c.total < n /\ c.copied >= c.to_copy) THEN c
  ELSE RingCopyChunk(c, write_cb, offset, n,
                     (c.ring.write_pos + offset) % c.ring.size)

RingBuffer_copy(ring, write_cb, cb_arg, offset, n) ==
  RingCopyLoop([ring |-> ring, arg |-> cb_arg, total |-> 0,
                copied |-> 0, to_copy |-> 0],
               write_cb, offset, n)

---------------------------------------------------------------------------
(* Compressor: retained state (struct GKeyComp) *)

GKeyCompState_NextSequence == "NextSequence"
GKeyCompState_Progress     == "Progress"
GKeyCompState_FindSequence == "FindSequence"
GKeyCompState_PutOffset    == "PutOffset"
GKeyCompState_PutSize      == "PutSize"
GKeyCompState_PutByte      == "PutByte"
GKeyCompState_PutBytes     == "PutBytes"
GKeyCompState_Flush        == "Flush"

gkeycomp_make(history_log_2) ==
  [state            |-> GKeyCompState_Progress,
   in_total         |-> 0,
   out_total        |-> 0,
   out_pos          |-> 0,
   max_read_size    |-> 0,
   best_read_offset |-> 0,
   best_read_size   |-> 0,
   read_offset      |-> 0,
   read_size        |-> 0,
   acc              |-> 0,
   acc_nbits        |-> 0,
   history_log_2    |-> history_log_2,
   history          |-> RingBuffer_make(history_log_2)]

(* A faulty reset, for comparison: the ring is left as it was. *)
gkeycomp_reset_shallow(comp) ==
  [gkeycomp_make(comp.history_log_2) EXCEPT !.history = comp.history]

gkeycomp_reset(comp) ==
  [gkeycomp_make(comp.history_log_2)
     EXCEPT !.history = RingBuffer_reset(comp.history)]

---------------------------------------------------------------------------
(* Compressor: find_sequence.  f holds the function's local variables and  *)
(* best_read_offset, the one member it updates inside the loop.            *)

(* A different limit, for comparison: the most recently compressed byte    *)
(* may be copied, and nothing else limits the sequence.                    *)
FindMaxReadSizeWhole(history_log_2, read_offset) ==
  2 ^ history_log_2 - read_offset

FindMaxReadSize(history_log_2, read_offset) ==
  LET whole == 2 ^ history_log_2 - read_offset
  IN  IF whole > 0 THEN whole - 1 ELSE whole

(* The inner loop: extend the match while input and history agree. *)
RECURSIVE FindExtend(_, _, _)
FindExtend(comp, params, f) ==
  IF f.read_size < f.max_read_size
  THEN IF f.consumed >= params.in_size
       THEN [f EXCEPT !.exit = "finished"]
       ELSE IF params.in_buffer[f.consumed + 1] #
                 RingBuffer_read_char(comp.history, f.read_offset + f.read_size)
       THEN f
       ELSE FindExtend(comp, params,
                       [f EXCEPT !.read_size = f.read_size + 1,
                                 !.consumed  = f.consumed + 1])
  ELSE f

(* A faulty replacement, for comparison: a sequence as long as the best    *)
(* replaces it.                                                            *)
FindReplaceBestEqual(f) ==
  IF f.read_size >= f.best_read_size
  THEN [f EXCEPT !.best_read_offset = f.read_offset,
                 !.best_read_size   = f.read_size]
  ELSE f

FindReplaceBest(f) ==
  IF f.read_size > f.best_read_size
  THEN [f EXCEPT !.best_read_offset = f.read_offset,
                 !.best_read_size   = f.read_size]
  ELSE f

(* Search for the first character of a (longer) sequence, then match the   *)
(* rest of the previous best.  The result's exit is "break" (left the      *)
(* loop), "continue" (mismatch with the previous best) or "extend".        *)
FindNewByte(comp, params, f) ==
  IF f.best_read_size = 0
  THEN params.in_buffer[f.consumed + 1]
  ELSE RingBuffer_read_char(comp.history, f.best_read_offset)

(* The locals once the first character was found at offset 'found'. *)
FindFound(f, max_read_size, found) ==
  [f EXCEPT !.read_offset   = found,
            !.read_size     = 1,
            !.consumed      = IF 0 >= f.best_read_size THEN f.consumed + 1
                                                       ELSE f.consumed,
            !.max_read_size = max_read_size - (found - f.read_offset)]

FindRest(comp, h) ==
  IF h.read_size < h.best_read_size
  THEN IF RingBuffer_compare(comp.history,
                             h.read_offset + h.read_size,
                             h.best_read_offset + h.read_size,
                             h.best_read_size - h.read_size) # 0
       THEN [h EXCEPT !.exit = "continue"]
       ELSE [h EXCEPT !.read_size = h.best_read_size, !.exit = "extend"]
  ELSE [h EXCEPT !.exit = "extend"]

FindSearched(comp, f, max_read_size, found) ==
  IF found = SIZE_MAX
  THEN [f EXCEPT !.read_offset = SIZE_MAX, !.max_read_size = 0,
                 !.exit = "break"]
  ELSE FindRest(comp, FindFound(f, max_read_size, found))

FindSearch(comp, params, f, max_read_size) ==
  IF f.best_read_size >= max_read_size
  THEN [f EXCEPT !.max_read_size = max_read_size, !.exit = "break"]
  ELSE IF f.best_read_size = 0 /\ f.consumed >= params.in_size
  THEN [f EXCEPT !.max_read_size = max_read_size, !.exit = "break"]
  ELSE FindSearched(comp, f, max_read_size,
         RingBuffer_find_char(comp.history, f.read_offset,
                              max_read_size - f.best_read_size,
                              FindNewByte(comp, params, f)))

(* A wider search, for comparison: one more byte of the history (the most  *)
(* recently compressed one) may start or end a sequence.                   *)
FindFirstWider(comp, params, f) ==
  FindSearch(comp, params, f,
             FindMaxReadSize(comp.history_log_2, f.read_offset) + 1)

FindFirst(comp, params, f) ==
  FindSearch(comp, params, f,
             FindMaxReadSize(comp.history_log_2, f.read_offset))

FindAdvance(f) ==
  [f EXCEPT !.read_offset = f.read_offset + 1, !.read_size = 0]

RECURSIVE FindLoop(_, _, _)
FindExtended(comp, params, ext) ==
  IF ext.exit = "finished" THEN ext
  ELSE FindLoop(comp, params, FindAdvance(FindReplaceBest(ext)))

FindMatched(comp, params, first) ==
  CASE first.exit = "break"    -> first
    [] first.exit = "continue" -> FindLoop(comp, params, FindAdvance(first))
    [] OTHER -> FindExtended(comp, params, FindExtend(comp, params, first))

FindLoop(comp, params, f) ==
  FindMatched(comp, params,
              IF f.read_size = 0 THEN FindFirst(comp, params, f)
                                 ELSE [f EXCEPT !.exit = "extend"])

(* A faulty result, for comparison: a search that ran out of input is      *)
(* taken to have ended.                                                    *)
FindResultEager(f) ==
  IF f.best_read_size >= f.max_read_size \/ f.exit = "finished"
  THEN [read_size |-> f.best_read_size, read_offset |-> f.best_read_offset,
        success |-> TRUE]
  ELSE [read_size |-> f.read_size, read_offset |-> f.read_offset,
        success |-> FALSE]

(* A faulty result, for comparison: a stalled search forgets where it was. *)
FindResultBest(f) ==
  [read_size |-> f.best_read_size, read_offset |-> f.best_read_offset,
   success |-> f.best_read_size >= f.max_read_size]

(* What is stored when the search ends: the final best sequence, or the    *)
(* state of a search stalled for lack of input.                            *)
FindResult(f) ==
  IF f.best_read_size >= f.max_read_size
  THEN [read_size |-> f.best_read_size, read_offset |-> f.best_read_offset,
        success |-> TRUE]
  ELSE [read_size |-> f.read_size, read_offset |-> f.read_offset,
        success |-> FALSE]

FindStore(comp, params, f) ==
  [comp    |-> [comp EXCEPT !.in_total         = comp.in_total + f.consumed,
                            !.best_read_offset = f.best_read_offset,
                            !.read_size        = FindResult(f).read_size,
                            !.read_offset      = FindResult(f).read_offset,
                            !.max_read_size    = f.max_read_size,
                            !.best_read_size   = f.best_read_size],
   params  |-> [params EXCEPT
                  !.in_buffer = SubSeq(params.in_buffer, f.consumed + 1,
                                       Len(params.in_buffer)),
                  !.in_size   = params.in_size - f.consumed],
   success |-> FindResult(f).success]

find_sequence(comp, params) ==
  FindStore(comp, params,
    FindLoop(comp, params,
             [read_offset      |-> comp.read_offset,
              read_size        |-> comp.read_size,
              max_read_size    |-> comp.max_read_size,
              best_read_size   |-> comp.best_read_size,
              best_read_offset |-> comp.best_read_offset,
              consumed         |-> 0,
              exit             |-> "loop"]))

---------------------------------------------------------------------------
(* Compressor: gkeycomp_compress.  e holds the compressor, the parameter   *)
(* block and the function's local variables (state, status, flush, input). *)
(* Each Comp... operator is one case of the switch, ending where the case  *)
(* breaks or falling through into the next case's operator.                *)

(* A case that could not output: the call ends with BufferOverflow. *)
CompOverflow(e, w) ==
  [e EXCEPT !.comp   = w.comp,
            !.params = w.params,
            !.status = GKeyStatus_BufferOverflow]

CompFlushed(e, w) ==
  IF w.success
  THEN [e EXCEPT !.comp   = w.comp,
                 !.params = w.params,
                 !.status = GKeyStatus_Finished]
  ELSE CompOverflow(e, w)

CompFlush(e) == CompFlushed(e, write_bits(e.comp, e.params, UINT_MAX, 0))

CompPutBytesCopied(e, c) ==
  IF c.total >= e.comp.read_size
  THEN [e EXCEPT !.comp   = [c.arg.codec EXCEPT !.history = c.ring],
                 !.params = c.arg.params,
                 !.state  = GKeyCompState_NextSequence]
  ELSE [e EXCEPT !.comp   = [c.arg.codec EXCEPT
                               !.history   = c.ring,
                               !.read_size = @ - c.total],
                 !.params = c.arg.params,
                 !.status = GKeyStatus_BufferOverflow]

CompPutBytes(e) ==
  CompPutBytesCopied(e,
    RingBuffer_copy(e.comp.history, "comp",
                    [codec |-> e.comp, params |-> e.params],
                    e.comp.read_offset, e.comp.read_size))

(* A faulty literal, for comparison: the byte does not enter the ring. *)
CompPutByteWrittenNoRing(e, w) ==
  IF w.success
  THEN [e EXCEPT
          !.comp   = [w.comp EXCEPT !.in_total = @ + 1],
          !.params = [w.params EXCEPT !.in_buffer = Tail(@),
                                      !.in_size   = @ - 1],
          !.state  = GKeyCompState_NextSequence]
  ELSE CompOverflow(e, w)

CompPutByteWritten(e, w) ==
  IF w.success
  THEN [e EXCEPT
          !.comp   = [w.comp EXCEPT
                        !.history  = RingBuffer_write(w.comp.history,
                                       MemPtr(e.params.in_buffer), 1),
                        !.in_total = @ + 1],
          !.params = [w.params EXCEPT !.in_buffer = Tail(@),
                                      !.in_size   = @ - 1],
          !.state  = GKeyCompState_NextSequence]
  ELSE CompOverflow(e, w)

(* A faulty literal, for comparison: the byte is not shifted past the      *)
(* token's type bit.                                                       *)
CompPutByteUnshifted(e) ==
  CompPutByteWritten(e,
    write_bits(e.comp, e.params, CHAR_BIT + 1, e.params.in_buffer[1]))

CompPutByte(e) ==
  CompPutByteWritten(e,
    write_bits(e.comp, e.params, CHAR_BIT + 1,
               ShiftLeft(e.params.in_buffer[1], 1)))

(* A faulty copy, for comparison: the sequence does not enter the ring. *)
CompPutSizeNotCopied(e, w, c) ==
  [e EXCEPT !.comp   = w.comp,
            !.params = w.params,
            !.state  = GKeyCompState_NextSequence]

CompPutSizeCopied(e, w, c) ==
  [e EXCEPT !.comp   = [w.comp EXCEPT !.history = c.ring],
            !.params = w.params,
            !.state  = GKeyCompState_NextSequence]

CompPutSizeWritten(e, w) ==
  IF w.success
  THEN CompPutSizeCopied(e, w,
         RingBuffer_copy(w.comp.history, "NULL",
                         [codec |-> w.comp, params |-> w.params],
                         w.comp.read_offset, w.comp.read_size))
  ELSE CompOverflow(e, w)

CompPutSize(e) ==
  CompPutSizeWritten(e,
    write_bits(e.comp, e.params,
               GKey_get_read_size_bits(e.comp.history_log_2,
                                       e.comp.read_offset),
               e.comp.read_size))

CompPutOffsetWritten(e, w) ==
  IF w.success
  THEN CompPutSize([e EXCEPT !.comp   = w.comp,
                             !.params = w.params,
                             !.state  = GKeyCompState_PutSize])
  ELSE CompOverflow(e, w)

CompPutOffset(e) ==
  CompPutOffsetWritten(e,
    write_bits(e.comp, e.params, e.comp.history_log_2 + 1,
               BitOr(ShiftLeft(e.comp.read_offset, 1), 1)))

(* A faulty choice, for comparison: a flushing call with nothing pending   *)
(* asks for more input instead of entering Flush.                          *)
CompChooseNoFlush(e) ==
  IF e.comp.read_size = 0
  THEN IF e.params.in_size > 0
       THEN [e EXCEPT !.state = GKeyCompState_PutByte]
       ELSE [e EXCEPT !.input = FALSE]
  ELSE IF e.comp.read_size * (CHAR_BIT + 1) <
            e.comp.history_log_2 + 1 +
            GKey_get_read_size_bits(e.comp.history_log_2, e.comp.read_offset)
       THEN [e EXCEPT !.state = GKeyCompState_PutBytes]
       ELSE [e EXCEPT !.state = GKeyCompState_PutOffset]

(* A different choice, for comparison: literals are chosen also when they  *)
(* cost the same as the copy token.                                        *)
CompChooseLiteralsOnTie(e) ==
  IF e.comp.read_size = 0
  THEN IF e.params.in_size > 0
       THEN [e EXCEPT !.state = GKeyCompState_PutByte]
       ELSE IF e.flush
       THEN [e EXCEPT !.state = GKeyCompState_Flush]
       ELSE [e EXCEPT !.input = FALSE]
  ELSE IF e.comp.read_size * (CHAR_BIT + 1) <=
            e.comp.history_log_2 + 1 +
            GKey_get_read_size_bits(e.comp.history_log_2, e.comp.read_offset)
       THEN [e EXCEPT !.state = GKeyCompState_PutBytes]
       ELSE [e EXCEPT !.state = GKeyCompState_PutOffset]

(* The choice made once the longest matching sequence is known. *)
CompChoose(e) ==
  IF e.comp.read_size = 0
  THEN IF e.params.in_size > 0
       THEN [e EXCEPT !.state = GKeyCompState_PutByte]
       ELSE IF e.flush
       THEN [e EXCEPT !.state = GKeyCompState_Flush]
       ELSE [e EXCEPT !.input = FALSE]
  ELSE IF e.comp.read_size * (CHAR_BIT + 1) <
            e.comp.history_log_2 + 1 +
            GKey_get_read_size_bits(e.comp.history_log_2, e.comp.read_offset)
       THEN [e EXCEPT !.state = GKeyCompState_PutBytes]
       ELSE [e EXCEPT !.state = GKeyCompState_PutOffset]

CompChosen(chosen) ==
  IF chosen.state # GKeyCompState_PutOffset
  THEN chosen
  ELSE CompPutOffset(chosen)

(* An older behaviour, for comparison: a search stalled for lack of input  *)
(* ends the call with TruncatedInput.                                      *)
CompSearchedTruncated(e, f) ==
  CompChosen(IF e.flush THEN CompChoose(e)
             ELSE IF f.success
             THEN CompChoose([e EXCEPT !.comp = f.comp, !.params = f.params])
             ELSE [e EXCEPT !.comp = f.comp, !.params = f.params,
                            !.status = GKeyStatus_TruncatedInput])

CompSearched(e, f) ==
  CompChosen(IF e.flush THEN CompChoose(e)
             ELSE IF f.success
             THEN CompChoose([e EXCEPT !.comp = f.comp, !.params = f.params])
             ELSE [e EXCEPT !.comp = f.comp, !.params = f.params,
                            !.input = FALSE])

CompFindSequence(e) == CompSearched(e, find_sequence(e.comp, e.params))

(* A different order, for comparison: the veto takes effect only after the *)
(* next sequence has been searched for.                                    *)
CompProgressLate(e) ==
  IF e.params.prog_cb # "NULL" /\ ~CallProgress(e.params).continue
  THEN [CompFindSequence([e EXCEPT !.state = GKeyCompState_FindSequence])
          EXCEPT !.params = CallProgress(e.params).params,
                 !.status = GKeyStatus_Aborted]
  ELSE CompFindSequence(
         [e EXCEPT !.params = IF e.params.prog_cb # "NULL"
                              THEN CallProgress(e.params).params
                              ELSE @,
                   !.state  = GKeyCompState_FindSequence])

CompProgress(e) ==
  IF e.params.prog_cb # "NULL" /\ ~CallProgress(e.params).continue
  THEN [e EXCEPT !.params = CallProgress(e.params).params,
                 !.status = GKeyStatus_Aborted]
  ELSE CompFindSequence(
         [e EXCEPT !.params = IF e.params.prog_cb # "NULL"
                              THEN CallProgress(e.params).params
                              ELSE @,
                   !.state  = GKeyCompState_FindSequence])

CompNextSequence(e) ==
  CompProgress([e EXCEPT !.comp = [@ EXCEPT !.best_read_size   = 0,
                                            !.best_read_offset = 0,
                                            !.read_size        = 0,
                                            !.read_offset      = 0]])

CompSwitch(e) ==
  CASE e.state = GKeyCompState_NextSequence -> CompNextSequence(e)
    [] e.state = GKeyCompState_Progress     -> CompProgress(e)
    [] e.state = GKeyCompState_FindSequence -> CompFindSequence(e)
    [] e.state = GKeyCompState_PutOffset    -> CompPutOffset(e)
    [] e.state = GKeyCompState_PutSize      -> CompPutSize(e)
    [] e.state = GKeyCompState_PutByte      -> CompPutByte(e)
    [] e.state = GKeyCompState_PutBytes     -> CompPutBytes(e)
    [] e.state = GKeyCompState_Flush        -> CompFlush(e)

RECURSIVE CompLoop(_)
CompLoopEnd(after) ==
  IF after.status = GKeyStatus_OK /\ after.input
  THEN CompLoop(after)
  ELSE after

CompLoop(e) == CompLoopEnd(CompSwitch(e))

CompReturn(e) ==
  [comp   |-> [e.comp EXCEPT !.state = e.state],
   params |-> e.params,
   status |-> e.status]

gkeycomp_compress(comp, params) ==
  CompReturn(CompLoop([comp   |-> comp,
                       params |-> params,
                       state  |-> comp.state,
                       status |-> GKeyStatus_OK,
                       flush  |-> params.in_size = 0,
                       input  |-> TRUE]))

---------------------------------------------------------------------------
(* Decompressor: retained state (struct GKeyDecomp) *)

GKeyDecompState_Progress  == "Progress"
GKeyDecompState_GetType   == "GetType"
GKeyDecompState_GetOffset == "GetOffset"
GKeyDecompState_GetSize   == "GetSize"
GKeyDecompState_CopyData  == "CopyData"
GKeyDecompState_GetByte   == "GetByte"
GKeyDecompState_PutByte   == "PutByte"

gkeydecomp_make(history_log_2) ==
  [state         |-> GKeyDecompState_Progress,
   in_total      |-> 0,
   out_total     |-> 0,
   read_offset   |-> 0,
   read_size     |-> 0,
   acc           |-> 0,
   acc_nbits     |-> 0,
   literal       |-> 0,
   history_log_2 |-> history_log_2,
   history       |-> RingBuffer_make(history_log_2)]

gkeydecomp_reset(decomp) ==
  [gkeydecomp_make(decomp.history_log_2)
     EXCEPT !.history = RingBuffer_reset(decomp.history)]

---------------------------------------------------------------------------
(* Decompressor: bit reader *)

(* The loop that pulls input bytes into the accumulator's higher bits. *)
RECURSIVE ReadBitsFill(_, _)
ReadBitsFill(r, nbits) ==
  IF r.acc_nbits >= nbits THEN r
  ELSE IF r.in_size = 0 THEN [r EXCEPT !.success = FALSE]
  ELSE ReadBitsFill(
         [r EXCEPT !.in_buffer = Tail(r.in_buffer),
                   !.in_total  = r.in_total + 1,
                   !.in_size   = r.in_size - 1,
                   !.acc       = BitOr(r.acc, ShiftLeft(r.in_buffer[1],
                                                        r.acc_nbits)),
                   !.acc_nbits = r.acc_nbits + CHAR_BIT],
         nbits)

(* A faulty extraction, for comparison: the bits taken stay in the         *)
(* accumulator.                                                            *)
ReadBitsExtractUnshifted(r, nbits) ==
  IF r.acc_nbits >= nbits
  THEN [r EXCEPT !.out       = LowBits(r.acc, nbits),
                 !.acc_nbits = r.acc_nbits - nbits]
  ELSE r

ReadBitsExtract(r, nbits) ==
  IF r.acc_nbits >= nbits
  THEN [r EXCEPT !.out       = LowBits(r.acc, nbits),
                 !.acc       = ShiftRight(r.acc, nbits),
                 !.acc_nbits = r.acc_nbits - nbits]
  ELSE r

ReadBitsStore(decomp, params, r) ==
  [decomp  |-> [decomp EXCEPT !.in_total  = r.in_total,
                              !.acc       = r.acc,
                              !.acc_nbits = r.acc_nbits],
   params  |-> [params EXCEPT !.in_buffer = r.in_buffer,
                              !.in_size   = r.in_size],
   out     |-> r.out,
   success |-> r.success]

read_bits(decomp, params, nbits) ==
  ReadBitsStore(decomp, params,
    ReadBitsExtract(
      ReadBitsFill([in_buffer |-> params.in_buffer,
                    in_size   |-> params.in_size,
                    in_total  |-> decomp.in_total,
                    acc       |-> decomp.acc,
                    acc_nbits |-> decomp.acc_nbits,
                    out       |-> 0,
                    success   |-> TRUE],
                   nbits),
      nbits))

---------------------------------------------------------------------------
(* Decompressor: gkeydecomp_decompress.  d holds the decompressor, the     *)
(* parameter block and the function's local variables (state, status,      *)
(* stop).  Each Decomp... operator is one case of the switch, ending where *)
(* the case breaks or falling through into the next case's operator.       *)

(* A faulty truncation, for comparison: the call forgets which part of    *)
(* the token it was reading.                                               *)
DecompTruncatedRestart(d, r) ==
  [d EXCEPT !.decomp = r.decomp, !.params = r.params,
            !.state  = GKeyDecompState_GetType,
            !.status = GKeyStatus_TruncatedInput]

(* A case that could not read the bits it needs mid-token. *)
DecompTruncated(d, r) ==
  [d EXCEPT !.decomp = r.decomp, !.params = r.params,
            !.status = GKeyStatus_TruncatedInput]

(* A different ending, for comparison: the end of the stream is reported   *)
(* as Finished.                                                            *)
DecompStopFinished(d, r) ==
  [d EXCEPT !.decomp = r.decomp, !.params = r.params,
            !.status = GKeyStatus_Finished]

(* A forgetful ending, for comparison: at the end of the stream the call   *)
(* forgets that the token's type bit was already read.                     *)
DecompStopRewind(d, r) ==
  [d EXCEPT !.decomp = r.decomp, !.params = r.params, !.stop = TRUE,
            !.state  = GKeyDecompState_GetType]

(* A case that found the stream to have ended between tokens. *)
DecompStop(d, r) ==
  [d EXCEPT !.decomp = r.decomp, !.params = r.params, !.stop = TRUE]

DecompPutByteWritten(d, w) ==
  IF w.n = 1
  THEN [d EXCEPT
          !.decomp = [w.arg.codec EXCEPT
                        !.history = RingBuffer_write(d.decomp.history,
                                      MemPtr(<<d.decomp.literal>>), 1)],
          !.params = w.arg.params,
          !.state  = GKeyDecompState_Progress]
  ELSE [d EXCEPT !.decomp = w.arg.codec,
                 !.params = w.arg.params,
                 !.status = GKeyStatus_BufferOverflow]

DecompPutByte(d) ==
  DecompPutByteWritten(d,
    decomp_ring_writer(d.decomp.history,
                       [codec |-> d.decomp, params |-> d.params],
                       MemPtr(<<d.decomp.literal>>), 1))

(* A lenient literal, for comparison: running out of input in GetByte is   *)
(* taken as the end of the stream whatever the accumulator holds.          *)
DecompGetByteReadLenient(d, r) ==
  IF r.success
  THEN DecompPutByte([d EXCEPT
                        !.decomp = [r.decomp EXCEPT !.literal = r.out],
                        !.params = r.params,
                        !.state  = GKeyDecompState_PutByte])
  ELSE DecompStop(d, r)

DecompGetByteRead(d, r) ==
  IF r.success
  THEN DecompPutByte([d EXCEPT
                        !.decomp = [r.decomp EXCEPT !.literal = r.out],
                        !.params = r.params,
                        !.state  = GKeyDecompState_PutByte])
  ELSE IF r.decomp.acc = 0
  THEN DecompStop(d, r)
  ELSE DecompTruncated(d, r)

DecompGetByte(d) == DecompGetByteRead(d, read_bits(d.decomp, d.params, CHAR_BIT))

(* A faulty copy, for comparison: an interrupted copy forgets how much it  *)
(* has copied.                                                             *)
DecompCopyDataRestarted(d, c) ==
  IF c.total >= d.decomp.read_size
  THEN [d EXCEPT !.decomp = [c.arg.codec EXCEPT !.history = c.ring],
                 !.params = c.arg.params,
                 !.state  = GKeyDecompState_Progress]
  ELSE [d EXCEPT !.decomp = [c.arg.codec EXCEPT !.history = c.ring],
                 !.params = c.arg.params,
                 !.status = GKeyStatus_BufferOverflow]

DecompCopyDataCopied(d, c) ==
  IF c.total >= d.decomp.read_size
  THEN [d EXCEPT !.decomp = [c.arg.codec EXCEPT !.history = c.ring],
                 !.params = c.arg.params,
                 !.state  = GKeyDecompState_Progress]
  ELSE [d EXCEPT !.decomp = [c.arg.codec EXCEPT
                               !.history   = c.ring,
                               !.read_size = @ - c.total],
                 !.params = c.arg.params,
                 !.status = GKeyStatus_BufferOverflow]

(* A faulty copy, for comparison: the source is always the oldest bytes    *)
(* of the history, whatever the offset.                                    *)
DecompCopyDataOldest(d) ==
  DecompCopyDataCopied(d,
    RingBuffer_copy(d.decomp.history, "decomp",
                    [codec |-> d.decomp, params |-> d.params],
                    0, d.decomp.read_size))

DecompCopyData(d) ==
  DecompCopyDataCopied(d,
    RingBuffer_copy(d.decomp.history, "decomp",
                    [codec |-> d.decomp, params |-> d.params],
                    d.decomp.read_offset, d.decomp.read_size))

(* A tolerant length, for comparison: a length of 0 is taken as 1 (as the  *)
(* FDComp module is said to do).                                           *)
DecompGetSizeReadTolerant(d, r) ==
  IF r.success
  THEN IF d.decomp.read_offset + r.out > 2 ^ d.decomp.history_log_2
       THEN [d EXCEPT !.decomp = r.decomp, !.params = r.params,
                      !.status = GKeyStatus_BadInput]
       ELSE DecompCopyData([d EXCEPT
                              !.decomp = [r.decomp EXCEPT
                                            !.read_size = IF r.out = 0 THEN 1
                                                          ELSE r.out],
                              !.params = r.params,
                              !.state  = GKeyDecompState_CopyData])
  ELSE DecompTruncated(d, r)

DecompGetSizeRead(d, r) ==
  IF r.success
  THEN IF r.out = 0 \/
          d.decomp.read_offset + r.out > 2 ^ d.decomp.history_log_2
       THEN [d EXCEPT !.decomp = r.decomp, !.params = r.params,
                      !.status = GKeyStatus_BadInput]
       ELSE DecompCopyData([d EXCEPT
                              !.decomp = [r.decomp EXCEPT !.read_size = r.out],
                              !.params = r.params,
                              !.state  = GKeyDecompState_CopyData])
  ELSE DecompTruncated(d, r)

DecompGetSize(d) ==
  DecompGetSizeRead(d,
    read_bits(d.decomp, d.params,
              GKey_get_read_size_bits(d.decomp.history_log_2,
                                      d.decomp.read_offset)))

DecompGetOffsetRead(d, r) ==
  IF r.success
  THEN DecompGetSize([d EXCEPT
                        !.decomp = [r.decomp EXCEPT !.read_offset = r.out],
                        !.params = r.params,
                        !.state  = GKeyDecompState_GetSize])
  ELSE DecompTruncated(d, r)

DecompGetOffset(d) ==
  DecompGetOffsetRead(d, read_bits(d.decomp, d.params, d.decomp.history_log_2))

DecompGetTypeRead(d, r) ==
  IF r.success
  THEN IF r.out # 0
       THEN DecompGetOffset([d EXCEPT !.decomp = r.decomp,
                                      !.params = r.params,
                                      !.state  = GKeyDecompState_GetOffset])
       ELSE [d EXCEPT !.decomp = r.decomp, !.params = r.params,
                      !.state  = GKeyDecompState_GetByte]
  ELSE DecompStop(d, r)

DecompGetType(d) == DecompGetTypeRead(d, read_bits(d.decomp, d.params, 1))

DecompProgress(d) ==
  IF d.prog_cb # "NULL" /\ ~CallProgress(d.params).continue
  THEN [d EXCEPT !.params = CallProgress(d.params).params,
                 !.status = GKeyStatus_Aborted]
  ELSE DecompGetType(
         [d EXCEPT !.params = IF d.prog_cb # "NULL"
                              THEN CallProgress(d.params).params
                              ELSE @,
                   !.state  = GKeyDecompState_GetType])

DecompSwitch(d) ==
  CASE d.state = GKeyDecompState_Progress  -> DecompProgress(d)
    [] d.state = GKeyDecompState_GetType   -> DecompGetType(d)
    [] d.state = GKeyDecompState_GetOffset -> DecompGetOffset(d)
    [] d.state = GKeyDecompState_GetSize   -> DecompGetSize(d)
    [] d.state = GKeyDecompState_CopyData  -> DecompCopyData(d)
    [] d.state = GKeyDecompState_GetByte   -> DecompGetByte(d)
    [] d.state = GKeyDecompState_PutByte   -> DecompPutByte(d)

RECURSIVE DecompLoop(_)
DecompLoopEnd(after) ==
  IF after.status = GKeyStatus_OK /\ ~after.stop
  THEN DecompLoop(after)
  ELSE after

DecompLoop(d) == DecompLoopEnd(DecompSwitch(d))

DecompReturn(d) ==
  [decomp |-> [d.decomp EXCEPT !.state = d.state],
   params |-> d.params,
   status |-> d.status]

gkeydecomp_decompress(decomp, params) ==
  DecompReturn(DecompLoop([decomp  |-> decomp,
                           params  |-> params,
                           state   |-> decomp.state,
                           prog_cb |-> params.prog_cb,
                           status  |-> GKeyStatus_OK,
                           stop    |-> FALSE]))

---------------------------------------------------------------------------
(* The callers.  A codec instance is held with its parameter block, which  *)
(* is carried over from call to call, and the status of the last call.     *)

HistoryLogs == (0 .. MaxSmallLog2) \cup {TieLog2, BigLog2}

InputByte(i) == (i * 65) % 256
InputBytes   == {InputByte(i) : i \in 0 .. NumSyms - 1}

CodeByte(i)  == CASE i = 0 -> 0
                  [] i = 1 -> 221
                  [] i = 2 -> 130
                  [] i = 3 -> 25
                  [] OTHER -> (i * 5) % 256
CodeBytes    == {CodeByte(i) : i \in 0 .. NumCodes - 1}

SeqsUpTo(S, n) == UNION {[1 .. m -> S] : m \in 0 .. n}

Windows == (1 .. MaxWindow) \cup {AmpleSize}

Idle == [status |-> "Idle"]

Count(n) == LOWEST(n + 1, CountCap)

NewCompressor(history_log_2, out_buffer) ==
  [comp   |-> gkeycomp_make(history_log_2),
   params |-> GKeyParameters(<< >>, out_buffer, 0),
   status |-> "None"]

NewDecompressor(history_log_2, out_buffer) ==
  [decomp |-> gkeydecomp_make(history_log_2),
   params |-> GKeyParameters(<< >>, out_buffer, 0),
   status |-> "None"]

(* The caller points the block at a new piece of input. *)
SupplyInput(params, piece) ==
  [params EXCEPT !.in_buffer = piece, !.in_size = Len(piece)]

(* The caller replaces the output window; in sizing mode there is none. *)
SupplyWindow(params, w) ==
  IF params.out_buffer.null THEN params ELSE [params EXCEPT !.out_size = w]

Compress(e, params) == gkeycomp_compress(e.comp, params)

Decompress(d, params) == gkeydecomp_decompress(d.decomp, params)

(* Bytes a call has output: written to the buffer, or counted. *)
Output(before, after) ==
  IF after.out_buffer.null
  THEN after.out_size - before.out_size
  ELSE Len(after.out_buffer.written) - Len(before.out_buffer.written)

Take(seq, n) == SubSeq(seq, 1, n)
Drop(seq, n) == SubSeq(seq, n + 1, Len(seq))

---------------------------------------------------------------------------
(* Specification Spec: one compressor and its caller.  The caller has the  *)
(* input src.rest to compress.  It supplies the next piece after OK,       *)
(* re-invokes with the carried-over block and a new window after           *)
(* BufferOverflow, flushes (in_size = 0) once everything was handed over,  *)
(* and may go on calling after Finished.                                   *)

CompTrace0 ==
  [feeds |-> 0, overflows |-> 0, flushes |-> 0, after |-> 0,
   lastFlush |-> FALSE, lastOutput |-> 0, gaveIn |-> 0, gaveOut |-> 0]

CompTraceNext(e, params, flushing) ==
  [trace EXCEPT
     !.overflows  = IF e.status = GKeyStatus_BufferOverflow THEN Count(@)
                                                            ELSE @,
     !.lastFlush  = flushing,
     !.lastOutput = Output(params, e.params)]

InitComp ==
  /\ \E k \in HistoryLogs, sizing \in BOOLEAN :
       enc = NewCompressor(k, IF sizing THEN NullBuffer ELSE Buffer(<< >>))
  /\ \E x \in SeqsUpTo(InputBytes, MaxInput) : src = [done |-> << >>, rest |-> x]
  /\ trace = CompTrace0
  /\ encB = Idle /\ dec = Idle /\ decB = Idle

CompressPiece(n, w) ==
  /\ enc.status \in {"None", GKeyStatus_OK}
  /\ enc.params.in_size = 0
  /\ n >= 1 /\ n <= Len(src.rest)
  /\ LET params == SupplyWindow(SupplyInput(enc.params, Take(src.rest, n)), w)
         e      == Compress(enc, params)
     IN  /\ enc' = e
         /\ trace' = [CompTraceNext(e, params, FALSE) EXCEPT
                        !.feeds = Count(@)]
  /\ src' = [done |-> src.done \o Take(src.rest, n), rest |-> Drop(src.rest, n)]
  /\ UNCHANGED <<encB, dec, decB>>

CompressRetry(w) ==
  /\ enc.status = GKeyStatus_BufferOverflow
  /\ LET params == SupplyWindow(enc.params, w)
         e      == Compress(enc, params)
     IN  /\ enc' = e
         /\ trace' = CompTraceNext(e, params, params.in_size = 0)
  /\ UNCHANGED <<encB, dec, decB, src>>

CompressFlush(w) ==
  /\ enc.status \in {"None", GKeyStatus_OK}
  /\ enc.params.in_size = 0
  /\ src.rest = << >>
  /\ LET params == SupplyWindow(SupplyInput(enc.params, << >>), w)
         e      == Compress(enc, params)
     IN  /\ enc' = e
         /\ trace' = [CompTraceNext(e, params, TRUE) EXCEPT
                        !.flushes = Count(@)]
  /\ UNCHANGED <<encB, dec, decB, src>>

CompressAgain(piece, w) ==
  /\ enc.status = GKeyStatus_Finished
  /\ trace.after < MaxAfter
  /\ LET params == SupplyWindow(SupplyInput(enc.params, piece), w)
         e      == Compress(enc, params)
     IN  /\ enc' = e
         /\ trace' = [CompTraceNext(e, params, Len(piece) = 0) EXCEPT
                        !.after   = @ + 1,
                        !.gaveIn  = params.in_size,
                        !.gaveOut = params.out_size]
  /\ UNCHANGED <<encB, dec, decB, src>>

NextComp ==
  \/ \E n \in 1 .. MaxPiece, w \in Windows : CompressPiece(n, w)
  \/ \E w \in Windows : CompressRetry(w)
  \/ \E w \in Windows : CompressFlush(w)
  \/ \E piece \in SeqsUpTo(InputBytes, 1), w \in Windows :
       CompressAgain(piece, w)

Spec == InitComp /\ [][NextComp]_vars

---------------------------------------------------------------------------
(* Reference runs: the whole input in one call with an ample window (and,  *)
(* for the compressor, one flushing call after it).                        *)

FeedAll(e, x) ==
  IF x = << >> THEN e
  ELSE Compress(e, SupplyWindow(SupplyInput(e.params, x), AmpleSize))

FlushAll(e) ==
  Compress(e, SupplyWindow(SupplyInput(e.params, << >>), AmpleSize))

EncodeAll(history_log_2, x) ==
  FlushAll(FeedAll(NewCompressor(history_log_2, Buffer(<< >>)), x))

DecodeFrom(d, y) ==
  Decompress(d, SupplyWindow(SupplyInput(d.params, y), AmpleSize))

DecodeAll(history_log_2, y) ==
  DecodeFrom(NewDecompressor(history_log_2, Buffer(<< >>)), y)

Written(c) == c.params.out_buffer.written

---------------------------------------------------------------------------
(* Claims about the compressor, checked under Spec *)

(* C1: round trip.  Whenever the compressor has returned Finished, a fresh *)
(* decompressor with the same history_log_2, given the bytes the           *)
(* compressor wrote, outputs exactly the bytes that were handed to the     *)
(* compressor (the empty input included) and consumes the whole stream.    *)
C1_RoundTrip ==
  (enc.status = GKeyStatus_Finished /\ ~enc.params.out_buffer.null)
    => /\ Written(DecodeAll(enc.comp.history_log_2, Written(enc))) = src.done
       /\ DecodeAll(enc.comp.history_log_2, Written(enc)).status = GKeyStatus_OK
       /\ DecodeAll(enc.comp.history_log_2, Written(enc)).params.in_size = 0

C1_Witness ==
  /\ enc.status = GKeyStatus_Finished /\ ~enc.params.out_buffer.null
  /\ Len(src.done) = MaxInput /\ src.rest = << >>
  /\ Len(Written(enc)) < Len(src.done)
  /\ Written(DecodeAll(enc.comp.history_log_2, Written(enc))) = src.done

(* C2: compressor resumability.  When the input was handed over in pieces  *)
(* (one call per piece, no call ending in BufferOverflow) and then         *)
(* flushed, the output is byte for byte that of one call with the whole    *)
(* input followed by a flush.                                              *)
C2_CompResumable ==
  (/\ enc.status = GKeyStatus_Finished /\ ~enc.params.out_buffer.null
   /\ trace.overflows = 0)
    => /\ src.rest = << >>
       /\ Written(enc) = Written(EncodeAll(enc.comp.history_log_2, src.done))

C2_Witness ==
  /\ enc.status = GKeyStatus_Finished /\ ~enc.params.out_buffer.null
  /\ trace.overflows = 0 /\ trace.feeds >= 2 /\ Len(src.done) = MaxInput
  /\ Len(Written(enc)) < Len(src.done)
  /\ Written(enc) = Written(EncodeAll(enc.comp.history_log_2, src.done))

(* C4: output-window insensitivity of the compressor.  For input handed    *)
(* over as a single piece, whatever windows were offered and however many  *)
(* calls ended in BufferOverflow and were re-invoked with the carried-over *)
(* block, the concatenated output is that of a run with an ample window.   *)
C4_CompWindows ==
  (/\ enc.status = GKeyStatus_Finished /\ ~enc.params.out_buffer.null
   /\ trace.feeds <= 1)
    => Written(enc) = Written(EncodeAll(enc.comp.history_log_2, src.done))

C4_Witness ==
  /\ enc.status = GKeyStatus_Finished /\ ~enc.params.out_buffer.null
  /\ trace.feeds = 1 /\ trace.overflows >= 2 /\ Len(src.done) = MaxPiece
  /\ Len(Written(enc)) >= 2
  /\ Written(enc) = Written(EncodeAll(enc.comp.history_log_2, src.done))

(* C6: resumability and window insensitivity together, as claimed: when    *)
(* the compressor returns Finished, every input byte has been handed over  *)
(* and encoded, and the output is that of the single-shot run.             *)
C6_CompBoth ==
  (enc.status = GKeyStatus_Finished /\ ~enc.params.out_buffer.null)
    => /\ src.rest = << >>
       /\ Written(enc) = Written(EncodeAll(enc.comp.history_log_2, src.done))

(* C8: idempotent flush.  Once the compressor has returned Finished, every *)
(* later call (any input, any window) returns Finished again, consumes no  *)
(* input, writes no output and leaves the retained state (totals,          *)
(* accumulator, ring) as it was.                                           *)
C8_FinishedSticky ==
  [][enc.status = GKeyStatus_Finished =>
       /\ enc'.status = GKeyStatus_Finished
       /\ enc'.comp = enc.comp
       /\ enc'.params.in_size = trace'.gaveIn
       /\ enc'.params.out_size = trace'.gaveOut
       /\ enc'.params.out_buffer = enc.params.out_buffer]_vars

C8_Witness ==
  /\ enc.status = GKeyStatus_Finished
  /\ trace.after = MaxAfter /\ trace.gaveIn > 0
  /\ enc.params.in_size = trace.gaveIn
  /\ enc.comp.out_total > 0

(* C9: flush liveness.  A call with in_size = 0 and a non-empty window (or *)
(* in sizing mode) writes at least one byte or returns Finished; and once  *)
(* all input has been consumed, a caller who keeps calling is returned     *)
(* Finished after finitely many calls.                                     *)
AllConsumed == src.rest = << >> /\ enc.params.in_size = 0

C9_FlushLive ==
  /\ [](trace.lastFlush =>
          (enc.status = GKeyStatus_Finished \/ trace.lastOutput >= 1))
  /\ (AllConsumed ~> enc.status = GKeyStatus_Finished)

C9_Witness ==
  /\ trace.lastFlush /\ trace.flushes >= 1 /\ trace.overflows >= 2
  /\ AllConsumed
  /\ enc.status = GKeyStatus_BufferOverflow
  /\ enc.comp.state = GKeyCompState_Flush
  /\ trace.lastOutput >= 1

(* C14: gkeycomp_compress never returns TruncatedInput or BadInput: the   *)
(* status of every call is OK, BufferOverflow, Aborted or Finished, also   *)
(* when the input ran out in the middle of a search.                       *)
C14_CompStatus ==
  enc.status \in {"None", GKeyStatus_OK, GKeyStatus_BufferOverflow,
                  GKeyStatus_Aborted, GKeyStatus_Finished}

C14_Witness ==
  /\ enc.status = GKeyStatus_OK
  /\ enc.comp.state = GKeyCompState_FindSequence
  /\ enc.comp.read_size >= 1
  /\ enc.params.in_size = 0 /\ src.rest # << >>
  /\ trace.feeds >= 2

C17_PureLiterals ==
  LET W      == Written(enc)
      EmBit(i) ==
        IF i < CHAR_BIT * Len(W)
        THEN (W[(i \div CHAR_BIT) + 1] \div 2 ^ (i % CHAR_BIT)) % 2
        ELSE (enc.comp.acc \div 2 ^ (i - CHAR_BIT * Len(W))) % 2
      tokens == (CHAR_BIT + 1) * enc.comp.in_total
  IN  (/\ enc.status # "None" /\ enc.comp.history_log_2 = 0
       /\ ~enc.params.out_buffer.null)
        => /\ enc.comp.state \notin {GKeyCompState_PutOffset,
                                     GKeyCompState_PutSize,
                                     GKeyCompState_PutBytes}
           /\ enc.comp.read_size = 0 /\ enc.comp.best_read_size = 0
           /\ enc.comp.out_total = Len(W)
           /\ CHAR_BIT * enc.comp.out_total + enc.comp.acc_nbits =
                (IF enc.comp.state = GKeyCompState_Flush
                 THEN CHAR_BIT * ((tokens + CHAR_BIT - 1) \div CHAR_BIT)
                 ELSE tokens)
           /\ enc.comp.acc < 2 ^ enc.comp.acc_nbits
           /\ \A j \in 0 .. enc.comp.in_total - 1 :
                /\ EmBit((CHAR_BIT + 1) * j) = 0
                /\ \A b \in 0 .. CHAR_BIT - 1 :
                     EmBit((CHAR_BIT + 1) * j + 1 + b) =
                       (src.done[j + 1] \div 2 ^ b) % 2

C17_Witness ==
  /\ enc.status = GKeyStatus_Finished /\ enc.comp.history_log_2 = 0
  /\ enc.comp.in_total = MaxInput /\ trace.overflows >= 1
  /\ Len(Written(enc)) = ((CHAR_BIT + 1) * MaxInput + CHAR_BIT - 1)
                           \div CHAR_BIT
  /\ \E i \in 1 .. MaxInput - 1 : src.done[i] = src.done[i + 1]

(* C18: history content equivalence.  Whenever a call of the compressor   *)
(* has returned, a fresh decompressor given the bits emitted so far (the   *)
(* bytes written, then the accumulator padded with zero bits) has output   *)
(* the first N input bytes, N being the number of bytes the tokens emitted *)
(* stand for, and its ring is the compressor's ring: the same byte at      *)
(* every position, the same write_pos and the same filled flag.  Once the  *)
(* compressor has finished, N is all that it consumed.                     *)
C18_SameHistory ==
  LET emitted ==
        Written(enc) \o
          [i \in 1 .. (enc.comp.acc_nbits + CHAR_BIT - 1) \div CHAR_BIT |->
             (enc.comp.acc \div 256 ^ (i - 1)) % 256]
  IN  (enc.status # "None" /\ ~enc.params.out_buffer.null)
        => /\ DecodeAll(enc.comp.history_log_2, emitted).decomp.history =
                enc.comp.history
           /\ DecodeAll(enc.comp.history_log_2, emitted).decomp.out_total
                <= enc.comp.in_total
           /\ Written(DecodeAll(enc.comp.history_log_2, emitted)) =
                Take(src.done,
                     DecodeAll(enc.comp.history_log_2,
                               emitted).decomp.out_total)
           /\ enc.status = GKeyStatus_Finished =>
                DecodeAll(enc.comp.history_log_2, emitted).decomp.out_total =
                  enc.comp.in_total

C18_Witness ==
  /\ enc.status = GKeyStatus_OK /\ ~enc.params.out_buffer.null
  /\ src.rest # << >>
  /\ enc.comp.history.filled /\ enc.comp.history.write_pos >= 1
  /\ enc.comp.history_log_2 >= 1
  /\ CHAR_BIT * Len(Written(enc)) + enc.comp.acc_nbits + CHAR_BIT + 1
       < (CHAR_BIT + 1) * enc.comp.in_total

(* C19: token choice.  A matching sequence of n bytes at offset o is      *)
(* written as n literal tokens if and only if 9 * n is strictly less than  *)
(* the 1 + history_log_2 + nbits bits of the copy token; at equal cost the *)
(* copy token is written.                                                  *)
(*  - A sequence pending in PutBytes is cheaper as literals; one pending   *)
(*    in PutOffset or PutSize is not.                                      *)
(*  - When a flush completes a stalled sequence and emits the start of its *)
(*    token, the token's first bit (at the position the emitted bits had   *)
(*    reached) is 0, a literal, exactly when the literals are cheaper.     *)
C19_TokenChoice ==
  /\ [](enc.status # "None" =>
          /\ enc.comp.state = GKeyCompState_PutBytes =>
               /\ enc.comp.read_size >= 1
               /\ enc.comp.read_size * (CHAR_BIT + 1) <
                    1 + enc.comp.history_log_2 +
                    GKey_get_read_size_bits(enc.comp.history_log_2,
                                            enc.comp.read_offset)
          /\ enc.comp.state \in {GKeyCompState_PutOffset,
                                  GKeyCompState_PutSize} =>
               enc.comp.read_size * (CHAR_BIT + 1) >=
                 1 + enc.comp.history_log_2 +
                 GKey_get_read_size_bits(enc.comp.history_log_2,
                                         enc.comp.read_offset))
  /\ [][LET pos == CHAR_BIT * enc.comp.out_total + enc.comp.acc_nbits
            W   == Written(enc')
            bit == IF pos < CHAR_BIT * Len(W)
                   THEN (W[(pos \div CHAR_BIT) + 1]
                           \div 2 ^ (pos % CHAR_BIT)) % 2
                   ELSE (enc'.comp.acc
                           \div 2 ^ (pos - CHAR_BIT * Len(W))) % 2
        IN  (/\ enc.status = GKeyStatus_OK /\ src' = src
             /\ ~enc.params.out_buffer.null
             /\ enc.comp.state = GKeyCompState_FindSequence
             /\ enc.comp.read_size >= 1
             /\ CHAR_BIT * enc'.comp.out_total + enc'.comp.acc_nbits > pos)
              => (bit = 0 <=>
                    enc.comp.read_size * (CHAR_BIT + 1) <
                      1 + enc.comp.history_log_2 +
                      GKey_get_read_size_bits(enc.comp.history_log_2,
                                              enc.comp.read_offset))]_vars

C19_Witness ==
  /\ enc.status = GKeyStatus_BufferOverflow
  /\ enc.comp.state = GKeyCompState_PutOffset
  /\ enc.comp.read_size * (CHAR_BIT + 1) =
       1 + enc.comp.history_log_2 +
       GKey_get_read_size_bits(enc.comp.history_log_2, enc.comp.read_offset)

(* C23: empty input.  The first call made to a new compressor with        *)
(* in_size = 0 returns Finished, in that one call, whatever window it is   *)
(* given: nothing was read, nothing was written or counted, and no bits    *)
(* are left in the accumulator.                                            *)
C23_EmptyInput ==
  (enc.status # "None" /\ trace.feeds = 0 /\ trace.after = 0)
    => /\ enc.status = GKeyStatus_Finished
       /\ trace.flushes = 1 /\ trace.overflows = 0
       /\ src.done = << >> /\ src.rest = << >>
       /\ trace.lastOutput = 0
       /\ enc.comp.in_total = 0 /\ enc.comp.out_total = 0
       /\ enc.comp.acc = 0 /\ enc.comp.acc_nbits = 0
       /\ enc.comp.state = GKeyCompState_Flush
       /\ Written(enc) = << >>
       /\ enc.params.out_buffer.null => enc.params.out_size = 0
       /\ enc.comp.history = RingBuffer_make(enc.comp.history_log_2)

C23_Witness ==
  /\ enc.status = GKeyStatus_Finished
  /\ trace.feeds = 0 /\ trace.flushes = 1 /\ trace.after = 0
  /\ ~enc.params.out_buffer.null
  /\ enc.params.out_size = 1
  /\ Written(enc) = << >>

(* Specification SpecFlush: Spec with a caller who keeps calling: who      *)
(* flushes whenever a flush is due, and re-invokes whenever a call ended   *)
(* in BufferOverflow.  This is weak fairness of the two calls,             *)
(* WF_vars(\E w \in Windows : CompressFlush(w)) and the same of            *)
(* CompressRetry, written out with the calls' guards in place of ENABLED.  *)
FlushDue == enc.status \in {"None", GKeyStatus_OK} /\ AllConsumed
RetryDue == enc.status = GKeyStatus_BufferOverflow

SpecFlush ==
  /\ Spec
  /\ \/ []<>(~FlushDue)
     \/ []<><<\E w \in Windows : CompressFlush(w)>>_vars
  /\ \/ []<>(~RetryDue)
     \/ []<><<\E w \in Windows : CompressRetry(w)>>_vars

---------------------------------------------------------------------------
(* Specification SpecDecomp: one decompressor and its caller.  The caller  *)
(* has the stream src.rest to decompress: any bytes, or what a compressor  *)
(* wrote.  It supplies the next piece after OK or TruncatedInput,          *)
(* re-invokes with the carried-over block and a new window after           *)
(* BufferOverflow, and may call with no input once the stream is used up.  *)

Streams(history_log_2) ==
  SeqsUpTo(CodeBytes, MaxStream) \cup
  {Written(EncodeAll(history_log_2, x)) : x \in SeqsUpTo(InputBytes, MaxInput)}

DecompTrace0 ==
  [feeds |-> 0, overflows |-> 0, after |-> 0,
   midCopy |-> FALSE, midByte |-> FALSE, midToken |-> FALSE]

(* One call and what the caller notes of it: whether it ended in           *)
(* BufferOverflow, whether it left a copy part-way (it resumed a copy,     *)
(* output some of its bytes and not all), whether it left a literal        *)
(* unwritten, whether it continued after TruncatedInput.                   *)
DecompressCall(params) ==
  /\ dec' = Decompress(dec, params)
  /\ trace' =
       [trace EXCEPT
          !.overflows = IF dec'.status = GKeyStatus_BufferOverflow
                        THEN Count(@) ELSE @,
          !.midCopy   = @ \/ (/\ dec.status = GKeyStatus_BufferOverflow
                              /\ dec.decomp.state = GKeyDecompState_CopyData
                              /\ Output(params, dec'.params) >= 1
                              /\ Output(params, dec'.params)
                                   < dec.decomp.read_size),
          !.midByte   = @ \/ (/\ dec'.status = GKeyStatus_BufferOverflow
                              /\ dec'.decomp.state = GKeyDecompState_PutByte),
          !.midToken  = @ \/ (/\ dec.status = GKeyStatus_TruncatedInput
                              /\ params.in_size > 0),
          !.feeds     = IF params.in_size > 0 THEN Count(@) ELSE @,
          !.after     = IF params.in_size = 0 /\ src.rest = << >>
                           /\ dec.status # GKeyStatus_BufferOverflow
                        THEN @ + 1 ELSE @]

InitDecomp ==
  /\ \E k \in HistoryLogs :
       /\ dec = NewDecompressor(k, Buffer(<< >>))
       /\ \E y \in Streams(k) : src = [done |-> << >>, rest |-> y]
  /\ trace = DecompTrace0
  /\ enc = Idle /\ encB = Idle /\ decB = Idle

DecompressPiece(n, w) ==
  /\ dec.status \in {"None", GKeyStatus_OK, GKeyStatus_TruncatedInput}
  /\ dec.params.in_size = 0
  /\ n >= 1 /\ n <= Len(src.rest)
  /\ DecompressCall(SupplyWindow(SupplyInput(dec.params, Take(src.rest, n)), w))
  /\ src' = [done |-> src.done \o Take(src.rest, n), rest |-> Drop(src.rest, n)]
  /\ UNCHANGED <<enc, encB, decB>>

DecompressRetry(w) ==
  /\ dec.status = GKeyStatus_BufferOverflow
  /\ DecompressCall(SupplyWindow(dec.params, w))
  /\ UNCHANGED <<enc, encB, decB, src>>

DecompressEnd(w) ==
  /\ dec.status \in {"None", GKeyStatus_OK, GKeyStatus_TruncatedInput}
  /\ dec.params.in_size = 0
  /\ src.rest = << >>
  /\ trace.after < MaxAfter
  /\ DecompressCall(SupplyWindow(SupplyInput(dec.params, << >>), w))
  /\ UNCHANGED <<enc, encB, decB, src>>

NextDecomp ==
  \/ \E n \in 1 .. MaxPiece, w \in Windows : DecompressPiece(n, w)
  \/ \E w \in Windows : DecompressRetry(w)
  \/ \E w \in Windows : DecompressEnd(w)

SpecDecomp == InitDecomp /\ [][NextDecomp]_vars

---------------------------------------------------------------------------
(* Claims about the decompressor, checked under SpecDecomp *)

Settled ==
  dec.status \in {GKeyStatus_OK, GKeyStatus_TruncatedInput, GKeyStatus_BadInput}

IsPrefix(a, b) == Len(a) <= Len(b) /\ SubSeq(b, 1, Len(a)) = a

(* C3: decompressor resumability.  When the stream was handed over in      *)
(* pieces (continuing after OK and after TruncatedInput, no call ending in *)
(* BufferOverflow), the output, the status and the retained state are      *)
(* those of one call with everything handed over so far.                   *)
C3_DecompResumable ==
  (Settled /\ trace.overflows = 0)
    => /\ Written(dec) = Written(DecodeAll(dec.decomp.history_log_2, src.done))
       /\ dec.status = DecodeAll(dec.decomp.history_log_2, src.done).status
       /\ dec.decomp = DecodeAll(dec.decomp.history_log_2, src.done).decomp

C3_Witness ==
  /\ dec.status = GKeyStatus_OK /\ trace.overflows = 0
  /\ trace.feeds >= 2 /\ trace.midToken /\ src.rest = << >>
  /\ Len(Written(dec)) >= 2
  /\ dec.decomp = DecodeAll(dec.decomp.history_log_2, src.done).decomp

(* C5: output-window insensitivity of the decompressor.  Whatever windows  *)
(* were offered and however many calls ended in BufferOverflow and were    *)
(* re-invoked, the concatenated output is that of a run with an ample      *)
(* window; while a call is waiting for room, what has been written is the  *)
(* beginning of that output and the window is full.                        *)
C5_DecompWindows ==
  /\ Settled =>
       Written(dec) = Written(DecodeAll(dec.decomp.history_log_2, src.done))
  /\ dec.status = GKeyStatus_BufferOverflow =>
       /\ dec.params.out_size = 0
       /\ IsPrefix(Written(dec),
                   Written(DecodeAll(dec.decomp.history_log_2, src.done)))
       /\ Written(dec) #
            Written(DecodeAll(dec.decomp.history_log_2, src.done))

C5_Witness ==
  /\ Settled /\ trace.midCopy /\ trace.midByte
  /\ Written(dec) = Written(DecodeAll(dec.decomp.history_log_2, src.done))

(* The end of the stream between tokens: the last call left the state at   *)
(* GetType with an empty accumulator, or at GetByte with an accumulator    *)
(* that is exactly zero, and no input.                                     *)
GracefulEnd ==
  /\ dec.status # "None"
  /\ dec.params.in_size = 0
  /\ \/ /\ dec.decomp.state = GKeyDecompState_GetType
        /\ dec.decomp.acc_nbits = 0
     \/ /\ dec.decomp.state = GKeyDecompState_GetByte
        /\ dec.decomp.acc = 0

(* C10 as claimed: at the end of the stream between tokens the             *)
(* decompressor returns Finished.                                          *)
C10_EndIsFinished == GracefulEnd => dec.status = GKeyStatus_Finished

(* C10, amended: at the end of the stream between tokens the decompressor  *)
(* returns OK, with the state left at GetType or GetByte; it never         *)
(* returns Finished.                                                       *)
C10_EndIsOK ==
  /\ GracefulEnd => dec.status = GKeyStatus_OK
  /\ dec.status = GKeyStatus_OK => GracefulEnd
  /\ dec.status # GKeyStatus_Finished

C10_Witness ==
  /\ GracefulEnd /\ dec.status = GKeyStatus_OK
  /\ dec.decomp.state = GKeyDecompState_GetByte
  /\ dec.decomp.acc_nbits = CHAR_BIT - 1
  /\ dec.decomp.in_total >= 2 /\ dec.decomp.out_total >= 1

(* C11: TruncatedInput is returned exactly when the input ran out in      *)
(* GetOffset or GetSize (whatever the accumulator holds) or in GetByte     *)
(* with a non-zero accumulator.  The call has then used up its input, the  *)
(* accumulator holds fewer bits than the field needs, and the retained     *)
(* state (state, accumulator, read_offset, literal, totals, ring) is that  *)
(* of one call with everything handed over so far, so the token is         *)
(* continued.  (read_size is left out: it is only meaningful in CopyData.) *)
C11_Truncated ==
  /\ dec.status # "None" =>
       (dec.status = GKeyStatus_TruncatedInput
          <=> \/ dec.decomp.state = GKeyDecompState_GetOffset
              \/ /\ dec.decomp.state = GKeyDecompState_GetSize
                 /\ dec.status # GKeyStatus_BadInput
              \/ /\ dec.decomp.state = GKeyDecompState_GetByte
                 /\ dec.decomp.acc # 0)
  /\ dec.status = GKeyStatus_TruncatedInput =>
       /\ dec.params.in_size = 0
       /\ dec.decomp.in_total = Len(src.done)
       /\ dec.decomp.acc_nbits <
            (CASE dec.decomp.state = GKeyDecompState_GetOffset ->
                    dec.decomp.history_log_2
               [] dec.decomp.state = GKeyDecompState_GetSize ->
                    GKey_get_read_size_bits(dec.decomp.history_log_2,
                                            dec.decomp.read_offset)
               [] OTHER -> CHAR_BIT)
       /\ [dec.decomp EXCEPT !.read_size = 0] =
            [DecodeAll(dec.decomp.history_log_2, src.done).decomp
               EXCEPT !.read_size = 0]

C11_Witness ==
  /\ dec.status = GKeyStatus_TruncatedInput
  /\ dec.decomp.state = GKeyDecompState_GetSize
  /\ dec.decomp.acc_nbits >= 1 /\ dec.decomp.acc # 0
  /\ trace.midToken /\ dec.decomp.out_total >= 1

(* C12: BadInput is returned if and only if a fully read copy length is 0 *)
(* or read_offset + length exceeds 2^history_log_2.  The stream is read    *)
(* here bit by bit, least significant bit first: the length field is the   *)
(* bits just before the decompressor's position in the stream.             *)
(*  - On BadInput the state stays at GetSize, the length is invalid, and   *)
(*    the output, out_total and the ring are those of decompressing the    *)
(*    stream cut off before the rejected token: the token wrote nothing.   *)
(*  - A copy that was accepted (seen waiting for room in CopyData) had a   *)
(*    valid length, read from a field at least one bit wide.               *)
(*  - With history_log_2 = 0 a stream is rejected exactly when one of its  *)
(*    tokens is a copy token (every token before it being a 9-bit literal).*)
C12_BadInput ==
  LET k        == dec.decomp.history_log_2
      Bit(i)   == (src.done[(i \div CHAR_BIT) + 1] \div 2 ^ (i % CHAR_BIT)) % 2
      Bits(from, n) ==
        LET F[j \in 0 .. n] ==
              IF j = 0 THEN 0 ELSE F[j - 1] + Bit(from + j - 1) * 2 ^ (j - 1)
        IN  F[n]
      pos      == CHAR_BIT * dec.decomp.in_total - dec.decomp.acc_nbits
      nbits    == GKey_get_read_size_bits(k, dec.decomp.read_offset)
      length   == Bits(pos - nbits, nbits)
      start    == pos - nbits - k - 1
      whole    == start \div CHAR_BIT
      before   == IF start % CHAR_BIT = 0
                  THEN Take(src.done, whole)
                  ELSE Take(src.done, whole) \o
                       <<LowBits(src.done[whole + 1], start % CHAR_BIT)>>
      invalid  == length = 0 \/ dec.decomp.read_offset + length > 2 ^ k
  IN  /\ dec.status = GKeyStatus_BadInput =>
           /\ dec.decomp.state = GKeyDecompState_GetSize
           /\ invalid
           /\ Bit(start) = 1
           /\ Written(dec) = Written(DecodeAll(k, before))
           /\ dec.decomp.out_total = Len(Written(dec))
           /\ dec.decomp.history = DecodeAll(k, before).decomp.history
      /\ (/\ dec.status = GKeyStatus_BufferOverflow
          /\ dec.decomp.state = GKeyDecompState_CopyData) =>
           /\ ~invalid
           /\ nbits >= 1
           /\ dec.decomp.read_size >= 1
           /\ dec.decomp.read_size <= length
      /\ (k = 0 /\ Settled) =>
           (dec.status = GKeyStatus_BadInput
              <=> \E j \in 0 .. Len(src.done) :
                    /\ (CHAR_BIT + 1) * j < CHAR_BIT * Len(src.done)
                    /\ Bit((CHAR_BIT + 1) * j) = 1)

C12_Witness ==
  /\ dec.status = GKeyStatus_BadInput
  /\ dec.decomp.state = GKeyDecompState_GetSize
  /\ dec.decomp.history_log_2 >= 1
  /\ dec.decomp.out_total >= 1
  /\ dec.decomp.acc_nbits >= 1
  /\ trace.overflows >= 1

(* C13 as claimed: once the decompressor has signalled the end of the     *)
(* stream (it returned OK, which it does only there), later calls ignore   *)
(* what they are given: no byte is output and in_total and out_total stay. *)
C13_EndSticky ==
  [][dec.status = GKeyStatus_OK =>
       /\ dec'.decomp.in_total = dec.decomp.in_total
       /\ dec'.decomp.out_total = dec.decomp.out_total
       /\ Written(dec') = Written(dec)]_vars

(* C13, amended: the end of the stream is not sticky.  After the           *)
(* decompressor has signalled it, a call without input changes nothing and *)
(* is returned OK again, while a call with more input consumes it (at      *)
(* least one byte) and carries on decompressing, as resumability requires. *)
C13_EndResumes ==
  [][dec.status = GKeyStatus_OK =>
       /\ src' = src =>
            /\ dec'.status = GKeyStatus_OK
            /\ dec'.decomp = dec.decomp
            /\ dec'.params.in_size = 0
            /\ Written(dec') = Written(dec)
       /\ src' # src =>
            /\ dec'.decomp.in_total > dec.decomp.in_total
            /\ dec'.status # GKeyStatus_Finished
            /\ IsPrefix(Written(dec), Written(dec'))]_vars

C13_Witness ==
  /\ dec.status = GKeyStatus_OK
  /\ dec.decomp.history_log_2 = 0
  /\ trace.feeds >= 2 /\ Len(src.done) = 2
  /\ ~trace.midToken /\ trace.overflows = 0
  /\ Len(Written(dec)) = 1 /\ dec.decomp.in_total = 2

---------------------------------------------------------------------------
(* Specification SpecSize: two instances of a codec given the same calls,  *)
(* one without an output buffer (out_size counts up from trace.base) and   *)
(* one with an ample buffer.                                               *)

Sizing(c, base) == [c EXCEPT !.params.out_size = base]

InitSize ==
  \E k \in HistoryLogs, base \in {0, MaxWindow} :
    /\ trace = [calls |-> 0, after |-> 0, base |-> base]
    /\ \/ /\ enc  = Sizing(NewCompressor(k, NullBuffer), base)
          /\ encB = NewCompressor(k, Buffer(<< >>))
          /\ dec = Idle /\ decB = Idle
          /\ \E x \in SeqsUpTo(InputBytes, MaxInput) :
               src = [done |-> << >>, rest |-> x]
       \/ /\ dec  = Sizing(NewDecompressor(k, NullBuffer), base)
          /\ decB = NewDecompressor(k, Buffer(<< >>))
          /\ enc = Idle /\ encB = Idle
          /\ \E y \in Streams(k) : src = [done |-> << >>, rest |-> y]

SizeCompress(piece) ==
  /\ enc'  = Compress(enc, SupplyInput(enc.params, piece))
  /\ encB' = Compress(encB, SupplyWindow(SupplyInput(encB.params, piece),
                                         AmpleSize))
  /\ UNCHANGED <<dec, decB>>

SizeDecompress(piece) ==
  /\ dec'  = Decompress(dec, SupplyInput(dec.params, piece))
  /\ decB' = Decompress(decB, SupplyWindow(SupplyInput(decB.params, piece),
                                           AmpleSize))
  /\ UNCHANGED <<enc, encB>>

SizeCompressPiece(n) ==
  /\ enc.status \in {"None", GKeyStatus_OK}
  /\ n >= 1 /\ n <= Len(src.rest)
  /\ SizeCompress(Take(src.rest, n))
  /\ src' = [done |-> src.done \o Take(src.rest, n), rest |-> Drop(src.rest, n)]
  /\ trace' = [trace EXCEPT !.calls = Count(@)]

SizeCompressFlush ==
  /\ enc.status \in {"None", GKeyStatus_OK, GKeyStatus_Finished}
  /\ src.rest = << >>
  /\ trace.after < MaxAfter
  /\ SizeCompress(<< >>)
  /\ trace' = [trace EXCEPT !.after = @ + 1]
  /\ UNCHANGED src

SizeDecompressPiece(n) ==
  /\ dec.status \in {"None", GKeyStatus_OK, GKeyStatus_TruncatedInput}
  /\ n >= 1 /\ n <= Len(src.rest)
  /\ SizeDecompress(Take(src.rest, n))
  /\ src' = [done |-> src.done \o Take(src.rest, n), rest |-> Drop(src.rest, n)]
  /\ trace' = [trace EXCEPT !.calls = Count(@)]

SizeDecompressEnd ==
  /\ dec.status \in {"None", GKeyStatus_OK, GKeyStatus_TruncatedInput}
  /\ src.rest = << >>
  /\ trace.after < MaxAfter
  /\ SizeDecompress(<< >>)
  /\ trace' = [trace EXCEPT !.after = @ + 1]
  /\ UNCHANGED src

NextSize ==
  \/ \E n \in 1 .. MaxPiece : SizeCompressPiece(n)
  \/ SizeCompressFlush
  \/ \E n \in 1 .. MaxPiece : SizeDecompressPiece(n)
  \/ SizeDecompressEnd

SpecSize == InitSize /\ [][NextSize]_vars

(* C7: size-mode equivalence.  Given the same calls, a codec without an    *)
(* output buffer never returns BufferOverflow, returns what the codec with *)
(* an ample buffer returns, has increased out_size by exactly the number   *)
(* of bytes the other has written, and has the same retained state         *)
(* (out_total and the ring among it).                                      *)
C7_SizeMode ==
  /\ enc.status # "Idle" =>
       /\ enc.status # GKeyStatus_BufferOverflow
       /\ enc.status = encB.status
       /\ enc.params.out_size - trace.base = Len(Written(encB))
       /\ enc.comp = encB.comp
  /\ dec.status # "Idle" =>
       /\ dec.status # GKeyStatus_BufferOverflow
       /\ dec.status = decB.status
       /\ dec.params.out_size - trace.base = Len(Written(decB))
       /\ dec.decomp = decB.decomp

C7_Witness ==
  /\ enc.status = GKeyStatus_Finished /\ encB.status = GKeyStatus_Finished
  /\ trace.calls >= 2 /\ trace.base > 0
  /\ Len(Written(encB)) >= 3
  /\ enc.params.out_size = trace.base + Len(Written(encB))
  /\ enc.comp.out_total = Len(Written(encB))

---------------------------------------------------------------------------
(* Specification SpecFormat: the format's functions applied to every       *)
(* history_log_2 up to MaxFormatLog2 and every read offset within the      *)
(* history.  src holds the arguments, trace the result of the last         *)
(* application.                                                            *)

InitFormat ==
  /\ \E k \in 0 .. MaxFormatLog2 :
       \E offset \in 0 .. 2 ^ k - 1 :
         src = [history_log_2 |-> k, read_offset |-> offset]
  /\ trace = [op |-> "none"]
  /\ enc = Idle /\ encB = Idle /\ dec = Idle /\ decB = Idle

ReadSizeBits ==
  /\ trace' = [op    |-> "GKey_get_read_size_bits",
               nbits |-> GKey_get_read_size_bits(src.history_log_2,
                                                 src.read_offset)]
  /\ UNCHANGED <<enc, encB, dec, decB, src>>

(* One byte compressed by a fresh compressor and flushed. *)
CompressByte(byte) ==
  /\ trace' = [op     |-> "gkeycomp_compress",
               input  |-> <<byte>>,
               status |-> EncodeAll(src.history_log_2, <<byte>>).status,
               output |-> Written(EncodeAll(src.history_log_2, <<byte>>))]
  /\ UNCHANGED <<enc, encB, dec, decB, src>>

NextFormat ==
  \/ ReadSizeBits
  \/ \E byte \in InputBytes : CompressByte(byte)

SpecFormat == InitFormat /\ [][NextFormat]_vars

(* C15: the width of the copy-length field.  For every history_log_2 and   *)
(* every read_offset within the history it is history_log_2 - 1 when       *)
(* history_log_2 > 0 and the offset lies in the upper half of the history, *)
(* and history_log_2 otherwise; with history_log_2 = 9, offset 256 takes 8 *)
(* bits and offset 255 takes 9.                                            *)
C15_SizeBits ==
  trace.op = "GKey_get_read_size_bits" =>
    /\ trace.nbits =
         (IF src.history_log_2 > 0 /\
             src.read_offset >= 2 ^ (src.history_log_2 - 1)
          THEN src.history_log_2 - 1
          ELSE src.history_log_2)
    /\ (src.history_log_2 = 9 /\ src.read_offset = 256) => trace.nbits = 8
    /\ (src.history_log_2 = 9 /\ src.read_offset = 255) => trace.nbits = 9
    /\ src.history_log_2 = 0 => trace.nbits = 0

C15_Witness ==
  /\ trace.op = "GKey_get_read_size_bits"
  /\ src.history_log_2 = 9 /\ src.read_offset = 256
  /\ trace.nbits = 8

(* C20 as claimed: compressing the single byte 0x41 with history_log_2 = 9 *)
(* and flushing produces exactly the one byte 0x82.                        *)
C20_OneByteOut ==
  (/\ trace.op = "gkeycomp_compress" /\ src.history_log_2 = 9
   /\ trace.input = <<65>>)
    => trace.output = <<130>>

(* C20, amended: a literal token is 9 bits (a 0 bit, then the byte, least  *)
(* significant bit first), so one input byte compresses to two bytes: the  *)
(* byte's low 7 bits shifted up by one, then its top bit padded with zero  *)
(* bits by the flush.  0x41 compresses to 0x82, 0x00 whatever the history  *)
(* size.  (A zero byte matches the zero-filled history, and is written as  *)
(* a copy token where that is no dearer: history_log_2 from 1 to 4.)       *)
C20_OneByteIsTwo ==
  trace.op = "gkeycomp_compress" =>
    /\ trace.status = GKeyStatus_Finished
    /\ (trace.input[1] # 0 \/ src.history_log_2 = 0 \/ src.history_log_2 >= 5)
         => trace.output =
              <<(2 * trace.input[1]) % 256, trace.input[1] \div 128>>
    /\ trace.input = <<65>> => trace.output = <<130, 0>>

C20_Witness ==
  /\ trace.op = "gkeycomp_compress" /\ src.history_log_2 = 9
  /\ trace.input = <<65>> /\ trace.output = <<130, 0>>
  /\ trace.status = GKeyStatus_Finished

---------------------------------------------------------------------------
(* Specification SpecExample: worked examples with history_log_2 = 9.  A   *)
(* compressor is given one of the example inputs by a caller that supplies *)
(* it in pieces and then flushes, or a decompressor is given one of the    *)
(* example streams by a caller that offers a 1-byte output window on each  *)
(* call.                                                                   *)

ExampleInputs ==
  {[i \in 1 .. n |-> b] : b \in {0, 65, 255}, n \in {6, ExampleRun}}
    \cup {<<65, 66, 65, 66, 65, 66>>}

ExampleStreams ==
  {<<130>>, <<130, 0>>, <<130, 8, 9, 34, 148, 191, 0>>}

InitExample ==
  /\ \/ /\ enc = NewCompressor(ExampleLog2, Buffer(<< >>))
        /\ dec = Idle
        /\ \E x \in ExampleInputs : src = [done |-> << >>, rest |-> x]
        /\ trace = CompTrace0
     \/ /\ enc = Idle
        /\ dec = NewDecompressor(ExampleLog2, Buffer(<< >>))
        /\ \E y \in ExampleStreams : src = [done |-> << >>, rest |-> y]
        /\ trace = DecompTrace0
  /\ encB = Idle /\ decB = Idle

NextExample ==
  \/ \E n \in {LOWEST(SmallPiece, Len(src.rest)),
                LOWEST(LargePiece, Len(src.rest))} :
       CompressPiece(n, AmpleSize)
  \/ CompressFlush(AmpleSize)
  \/ \E n \in 1 .. Len(src.rest) : DecompressPiece(n, 1)
  \/ DecompressRetry(1)
  \/ DecompressEnd(1)

SpecExample == InitExample /\ [][NextExample]_vars

(* The tokens of a stream, as the decompressor parses them: a 0 bit and a  *)
(* byte, or a 1 bit, an offset of history_log_2 bits and a size of         *)
(* GKey_get_read_size_bits bits, every field least significant bit first.  *)
(* Bits that do not make up a whole token are left out.                    *)
StreamBit(y, i) == (y[(i \div CHAR_BIT) + 1] \div 2 ^ (i % CHAR_BIT)) % 2

RECURSIVE StreamBits(_, _, _)
StreamBits(y, pos, n) ==
  IF n = 0 THEN 0
  ELSE StreamBit(y, pos) + 2 * StreamBits(y, pos + 1, n - 1)

RECURSIVE Tokens(_, _, _)
Tokens(history_log_2, y, pos) ==
  IF pos >= CHAR_BIT * Len(y) THEN << >>
  ELSE IF StreamBit(y, pos) = 0
  THEN IF pos + 1 + CHAR_BIT > CHAR_BIT * Len(y) THEN << >>
       ELSE <<[type |-> "literal", byte |-> StreamBits(y, pos + 1, CHAR_BIT)]>>
              \o Tokens(history_log_2, y, pos + 1 + CHAR_BIT)
  ELSE IF pos + 1 + history_log_2 > CHAR_BIT * Len(y) THEN << >>
  ELSE LET offset == StreamBits(y, pos + 1, history_log_2)
           nbits  == GKey_get_read_size_bits(history_log_2, offset)
       IN  IF pos + 1 + history_log_2 + nbits > CHAR_BIT * Len(y) THEN << >>
           ELSE <<[type   |-> "copy",
                   offset |-> offset,
                   size   |-> StreamBits(y, pos + 1 + history_log_2, nbits)]>>
                  \o Tokens(history_log_2, y,
                            pos + 1 + history_log_2 + nbits)

(* C21 as claimed: a decompressor with history_log_2 = 9 given the one     *)
(* byte 0x82 and a 1-byte window outputs 0x41 and reports Finished.        *)
C21_OneByteIn ==
  (/\ dec.status \notin {"Idle", "None"}
   /\ dec.decomp.history_log_2 = 9
   /\ src.done = <<130>> /\ src.rest = << >>)
    => /\ Written(dec) = <<65>>
       /\ dec.status = GKeyStatus_Finished

(* C21, amended: the literal token for 0x41 is 9 bits, so the byte 0x82    *)
(* alone is a token cut short: the decompressor outputs nothing and        *)
(* reports TruncatedInput, on the call that supplies it and on every       *)
(* following call without input.  Given 0x82, 0x00 (what the compressor    *)
(* writes for 0x41) it outputs 0x41 into the 1-byte window and returns OK  *)
(* with the input used up and the window full; it never reports Finished,  *)
(* and a following call without input outputs nothing more.                *)
C21_OneByteTruncated ==
  (/\ dec.status \notin {"Idle", "None"}
   /\ dec.decomp.history_log_2 = 9)
    => /\ dec.status # GKeyStatus_Finished
       /\ (src.done = <<130>> /\ src.rest = << >>) =>
            /\ dec.status = GKeyStatus_TruncatedInput
            /\ Written(dec) = << >>
            /\ dec.decomp.out_total = 0
            /\ dec.params.in_size = 0
            /\ dec.decomp.state = GKeyDecompState_GetByte
       /\ (src.done = <<130, 0>> /\ src.rest = << >>) =>
            /\ dec.status = GKeyStatus_OK
            /\ Written(dec) = <<65>>
            /\ dec.decomp.out_total = 1
            /\ dec.params.in_size = 0
            /\ trace.after = 0 => dec.params.out_size = 0

C21_Witness ==
  /\ dec.status = GKeyStatus_OK
  /\ dec.decomp.history_log_2 = 9
  /\ src.done = <<130, 0>> /\ src.rest = << >>
  /\ Written(dec) = <<65>> /\ dec.params.out_size = 0
  /\ trace.feeds = 1 /\ trace.after = 0

(* C22 as claimed: 0x41 0x42 0x41 0x42 0x41 0x42 compresses, with          *)
(* history_log_2 = 9, to two literal tokens and one copy token of 4 bytes. *)
C22_TwoLiteralsCopyFour ==
  (/\ enc.status = GKeyStatus_Finished
   /\ enc.comp.history_log_2 = 9
   /\ src.done = <<65, 66, 65, 66, 65, 66>>)
    => LET T == Tokens(9, Written(enc), 0)
       IN  /\ Len(T) = 3
           /\ T[1] = [type |-> "literal", byte |-> 65]
           /\ T[2] = [type |-> "literal", byte |-> 66]
           /\ T[3].type = "copy" /\ T[3].size = 4

(* C22, amended: a copy token cannot take bytes the same token produces    *)
(* (offset + size stays below the history size, and the most recently      *)
(* written byte is never copied), so the third and fourth bytes have only  *)
(* a 1-byte match and are written as literals.  The output is four literal *)
(* tokens and one copy token of 2 bytes whose offset, 508, is that of the  *)
(* first 0x41 (ring position 0, the write position being 4); it is not six *)
(* literals, and it decompresses to the input.                             *)
C22_FourLiteralsCopyTwo ==
  (/\ enc.status = GKeyStatus_Finished
   /\ enc.comp.history_log_2 = 9
   /\ src.done = <<65, 66, 65, 66, 65, 66>>)
    => /\ Tokens(9, Written(enc), 0) =
            <<[type |-> "literal", byte |-> 65],
              [type |-> "literal", byte |-> 66],
              [type |-> "literal", byte |-> 65],
              [type |-> "literal", byte |-> 66],
              [type |-> "copy", offset |-> (0 - 4) % 512, size |-> 2]>>
       /\ Written(enc) = <<130, 8, 9, 34, 148, 191, 0>>
       /\ Written(DecodeAll(9, Written(enc))) = src.done
       /\ enc.comp.history.write_pos = 6
       /\ \A j \in 0 .. 5 : enc.comp.history.buffer[j] = src.done[j + 1]

C22_Witness ==
  /\ enc.status = GKeyStatus_Finished
  /\ enc.comp.history_log_2 = 9
  /\ src.done = <<65, 66, 65, 66, 65, 66>>
  /\ Len(Tokens(9, Written(enc), 0)) = 5
  /\ trace.feeds = 1 /\ trace.flushes = 1

(* C27 as claimed: 512 copies of one byte value compress, with             *)
(* history_log_2 = 9, to exactly one literal token followed only by copy   *)
(* tokens.                                                                 *)
C27_OneLiteralThenCopies ==
  (/\ enc.status = GKeyStatus_Finished
   /\ enc.comp.history_log_2 = 9
   /\ Len(src.done) = 512)
    => LET T == Tokens(9, Written(enc), 0)
       IN  /\ Len(T) >= 2
           /\ T[1].type = "literal"
           /\ \A i \in 2 .. Len(T) : T[i].type = "copy"

(* C27, amended: the most recently written byte is never copied and a      *)
(* 1-byte match is cheaper as a literal, so 512 copies of a nonzero byte   *)
(* compress to three literal tokens followed only by copy tokens, of 2, 4, *)
(* 8, 16, 32, 64, 128 and 255 bytes, each from the oldest written byte.    *)
(* 512 zero bytes match the zero-filled history: they compress to one copy *)
(* token of 511 bytes at offset 0 and one literal.  In both cases the      *)
(* tokens account for the 512 bytes, and no copy token has a size of 256   *)
(* or more at an offset of 256 or more.                                    *)
C27_ThreeLiteralsThenCopies ==
  (/\ enc.status = GKeyStatus_Finished
   /\ enc.comp.history_log_2 = 9
   /\ Len(src.done) = 512)
    => LET T == Tokens(9, Written(enc), 0)
           b == src.done[1]
           sizes == [i \in 4 .. 11 |-> IF i = 11 THEN 255 ELSE 2 ^ (i - 3)]
       IN  /\ \A i \in 1 .. Len(T) :
                T[i].type = "copy" =>
                  /\ ~(T[i].size >= 256 /\ T[i].offset >= 256)
                  /\ T[i].size >= 1
                  /\ T[i].offset + T[i].size <= 511
           /\ b # 0 =>
                /\ Len(T) = 11
                /\ \A i \in 1 .. 3 : T[i] = [type |-> "literal", byte |-> b]
                /\ \A i \in 4 .. 11 :
                     T[i] = [type   |-> "copy",
                             offset |-> 512 - (1 + 2 ^ (i - 3)),
                             size   |-> sizes[i]]
           /\ b = 0 =>
                T = <<[type |-> "copy", offset |-> 0, size |-> 511],
                      [type |-> "literal", byte |-> 0]>>
           /\ enc.comp.in_total = 512
           /\ enc.comp.out_total = Len(Written(enc))

C27_Witness ==
  /\ enc.status = GKeyStatus_Finished
  /\ enc.comp.history_log_2 = 9
  /\ Len(src.done) = 512 /\ src.done[1] = 65 /\ src.done[512] = 65
  /\ Len(Tokens(9, Written(enc), 0)) = 11
  /\ trace.feeds >= 2

---------------------------------------------------------------------------
(* Allocation.  The heap is the set of blocks in use, with the number of   *)
(* allocations that will still succeed (the tests set it with              *)
(* Fortify_SetNumAllocationsLimit).  A pointer is null or holds the object *)
(* it points to.                                                           *)

malloc(heap, block) ==
  IF heap.limit = 0
  THEN [heap |-> heap, null |-> TRUE]
  ELSE [heap |-> [limit |-> heap.limit - 1, live |-> heap.live \cup {block}],
        null |-> FALSE]

FREE_SAFE(heap, block) == [heap EXCEPT !.live = @ \ {block}]

RingBuffer_make_in(heap, size_log_2) ==
  LET ring == malloc(heap, "RingBuffer")
  IN  IF ring.null THEN ring
      ELSE [heap |-> ring.heap, null |-> FALSE,
            obj  |-> RingBuffer_init(size_log_2)]

(* A faulty constructor, for comparison: the compressor's block is not    *)
(* freed when its ring cannot be allocated.                                *)
gkeycomp_make_leaky(heap, history_log_2) ==
  LET comp == malloc(heap, "GKeyComp")
  IN  IF comp.null THEN comp
      ELSE LET history == RingBuffer_make_in(comp.heap, history_log_2)
           IN  IF history.null
               THEN [heap |-> history.heap, null |-> TRUE]
               ELSE [heap |-> history.heap, null |-> FALSE,
                     obj  |-> [gkeycomp_make(history_log_2)
                                 EXCEPT !.history = history.obj]]

gkeycomp_make_in(heap, history_log_2) ==
  LET comp == malloc(heap, "GKeyComp")
  IN  IF comp.null THEN comp
      ELSE LET history == RingBuffer_make_in(comp.heap, history_log_2)
           IN  IF history.null
               THEN [heap |-> FREE_SAFE(history.heap, "GKeyComp"),
                     null |-> TRUE]
               ELSE [heap |-> history.heap, null |-> FALSE,
                     obj  |-> [gkeycomp_make(history_log_2)
                                 EXCEPT !.history = history.obj]]

gkeydecomp_make_in(heap, history_log_2) ==
  LET decomp == malloc(heap, "GKeyDecomp")
  IN  IF decomp.null THEN decomp
      ELSE LET history == RingBuffer_make_in(decomp.heap, history_log_2)
           IN  IF history.null
               THEN [heap |-> FREE_SAFE(history.heap, "GKeyDecomp"),
                     null |-> TRUE]
               ELSE [heap |-> history.heap, null |-> FALSE,
                     obj  |-> [gkeydecomp_make(history_log_2)
                                 EXCEPT !.history = history.obj]]

---------------------------------------------------------------------------
(* Specification SpecLife: the life of one object.  The caller makes a     *)
(* compressor, a decompressor or a ring buffer as the tests do, with the   *)
(* allocation limit raised by one on each attempt until the object is      *)
(* made.  It then runs a codec as in Spec or SpecDecomp, with a progress   *)
(* callback that vetoes after trace.approvals reports (none when that is   *)
(* negative), and may reset it once, at any point, and start over with the *)
(* same data.                                                              *)

LifeTrace0(kind, history_log_2, approvals) ==
  CompTrace0 @@ DecompTrace0 @@
  [kind |-> kind, history_log_2 |-> history_log_2, approvals |-> approvals,
   heap |-> [limit |-> 0, live |-> {}], attempts |-> 0, made |-> FALSE,
   resets |-> 0, ring |-> [null |-> TRUE]]

LifeParams(approvals) ==
  [GKeyParameters(<< >>, Buffer(<< >>), 0) EXCEPT
     !.prog_cb = IF approvals < 0 THEN "NULL" ELSE "cb",
     !.cb_arg  = IF approvals < 0 THEN 0 ELSE approvals]

InitLife ==
  /\ \E k \in 0 .. MaxSmallLog2 :
       \/ /\ \E approvals \in -1 .. MaxApprovals :
               trace = LifeTrace0("GKeyComp", k, approvals)
          /\ \E x \in SeqsUpTo(InputBytes, MaxInput) :
               src = [done |-> << >>, rest |-> x]
       \/ /\ \E approvals \in -1 .. MaxApprovals :
               trace = LifeTrace0("GKeyDecomp", k, approvals)
          /\ \E y \in Streams(k) : src = [done |-> << >>, rest |-> y]
       \/ /\ trace = LifeTrace0("RingBuffer", k, -1)
          /\ src = [done |-> << >>, rest |-> << >>]
  /\ enc = Idle /\ encB = Idle /\ dec = Idle /\ decB = Idle

(* One attempt of the tests' loop: set the limit, call the make function. *)
MakeInstance ==
  /\ ~trace.made
  /\ LET heap == [trace.heap EXCEPT !.limit = trace.attempts]
         made == CASE trace.kind = "GKeyComp" ->
                        gkeycomp_make_in(heap, trace.history_log_2)
                   [] trace.kind = "GKeyDecomp" ->
                        gkeydecomp_make_in(heap, trace.history_log_2)
                   [] trace.kind = "RingBuffer" ->
                        RingBuffer_make_in(heap, trace.history_log_2)
     IN  /\ trace' = [trace EXCEPT
                        !.heap     = made.heap,
                        !.attempts = @ + 1,
                        !.made     = ~made.null,
                        !.ring     = IF trace.kind = "RingBuffer" /\ ~made.null
                                     THEN [null |-> FALSE, obj |-> made.obj]
                                     ELSE @]
         /\ enc' = IF trace.kind = "GKeyComp" /\ ~made.null
                   THEN [comp   |-> made.obj,
                         params |-> LifeParams(trace.approvals),
                         status |-> "None"]
                   ELSE enc
         /\ dec' = IF trace.kind = "GKeyDecomp" /\ ~made.null
                   THEN [decomp |-> made.obj,
                         params |-> LifeParams(trace.approvals),
                         status |-> "None"]
                   ELSE dec
  /\ UNCHANGED <<encB, decB, src>>

(* gkeycomp_reset or gkeydecomp_reset, after at least one call; the caller *)
(* sets up its parameter block anew and starts over.                       *)
ResetInstance ==
  /\ trace.made /\ trace.resets = 0
  /\ \/ trace.kind = "GKeyComp" /\ enc.status # "None"
     \/ trace.kind = "GKeyDecomp" /\ dec.status # "None"
  /\ enc' = IF trace.kind = "GKeyComp"
            THEN [comp   |-> gkeycomp_reset(enc.comp),
                  params |-> LifeParams(trace.approvals),
                  status |-> "None"]
            ELSE enc
  /\ dec' = IF trace.kind = "GKeyDecomp"
            THEN [decomp |-> gkeydecomp_reset(dec.decomp),
                  params |-> LifeParams(trace.approvals),
                  status |-> "None"]
            ELSE dec
  /\ src' = [done |-> << >>, rest |-> src.done \o src.rest]
  /\ trace' = [LifeTrace0(trace.kind, trace.history_log_2, trace.approvals)
                 EXCEPT !.heap = trace.heap, !.attempts = trace.attempts,
                        !.made = TRUE, !.resets = 1]
  /\ UNCHANGED <<encB, decB>>

NextLife ==
  \/ MakeInstance
  \/ ResetInstance
  \/ \E n \in 1 .. MaxPiece, w \in Windows : CompressPiece(n, w)
  \/ \E w \in Windows : CompressRetry(w)
  \/ \E w \in Windows : CompressFlush(w)
  \/ \E n \in 1 .. MaxPiece, w \in Windows : DecompressPiece(n, w)
  \/ \E w \in Windows : DecompressRetry(w)
  \/ \E w \in Windows : DecompressEnd(w)

SpecLife == InitLife /\ [][NextLife]_vars

(* C24: cancellation.  The compressor returns Aborted only when a         *)
(* progress callback was supplied and has vetoed, and only between tokens: *)
(* the saved state is Progress (nothing has been done yet) or NextSequence *)
(* (a token was completed), no sequence is pending, and the bits emitted   *)
(* so far decompress to exactly the input consumed so far.  If the         *)
(* callback vetoes its first report, the call returns Aborted with the     *)
(* compressor as it was made (state Progress, in_total = out_total = 0,    *)
(* empty accumulator, zero ring), nothing written, and the parameter block *)
(* as supplied: all of the input still to be read.                         *)
C24_Aborted ==
  /\ [](enc.status = GKeyStatus_Aborted =>
          LET emitted ==
                Written(enc) \o
                  [i \in 1 .. (enc.comp.acc_nbits + CHAR_BIT - 1)
                                \div CHAR_BIT |->
                     (enc.comp.acc \div 256 ^ (i - 1)) % 256]
          IN  /\ enc.params.prog_cb # "NULL" /\ enc.params.cb_arg = 0
              /\ enc.comp.state \in {GKeyCompState_Progress,
                                      GKeyCompState_NextSequence}
              /\ enc.comp.state = GKeyCompState_Progress =>
                   /\ enc.comp = gkeycomp_make(enc.comp.history_log_2)
                   /\ Written(enc) = << >>
                   /\ trace.approvals = 0
              /\ enc.comp.state = GKeyCompState_NextSequence =>
                   /\ enc.comp.read_size = 0 /\ enc.comp.best_read_size = 0
                   /\ enc.comp.in_total >= 1
                   /\ trace.approvals >= 1
              /\ Written(DecodeAll(enc.comp.history_log_2, emitted)) =
                   Take(src.done, enc.comp.in_total))
  /\ [][(enc.status = "None" /\ enc'.status = GKeyStatus_Aborted
          /\ trace.approvals = 0)
         => /\ enc'.comp = enc.comp
            /\ enc'.comp.in_total = 0 /\ enc'.comp.out_total = 0
            /\ enc'.comp.state = GKeyCompState_Progress
            /\ enc'.params.out_buffer = enc.params.out_buffer
            /\ enc'.params.in_buffer = Drop(src'.done, Len(src.done))
            /\ enc'.params.in_size = Len(src'.done) - Len(src.done)
            /\ enc'.params.prog_cb = enc.params.prog_cb
            /\ enc'.params.cb_arg = enc.params.cb_arg
            /\ trace'.lastOutput = 0]_vars
  /\ [][(enc.status = "None" /\ enc'.status # "None" /\ trace.approvals = 0)
         => enc'.status = GKeyStatus_Aborted]_vars

C24_Witness ==
  /\ enc.status = GKeyStatus_Aborted
  /\ enc.comp.state = GKeyCompState_Progress
  /\ trace.approvals = 0 /\ trace.feeds = 1
  /\ enc.params.in_size = 2 /\ Len(src.done) = 2
  /\ enc.comp.in_total = 0 /\ enc.comp.out_total = 0
  /\ Written(enc) = << >>

(* C25: construction under allocation failure.  A make function returns   *)
(* null when one of its allocations fails (the ring's single block; a      *)
(* codec's own block, then its ring's), and then no block that the call    *)
(* allocated is still in use.  When every allocation succeeds it returns   *)
(* an object in the initial state: state Progress, totals, accumulator and *)
(* search variables zero, a zero-filled ring of 2^history_log_2 bytes with *)
(* write_pos = 0 and filled = FALSE.                                       *)
C25_MakeOrNothing ==
  LET need   == IF trace.kind = "RingBuffer" THEN 1 ELSE 2
      zeroes == [size       |-> 2 ^ trace.history_log_2,
                 size_log_2 |-> trace.history_log_2,
                 write_pos  |-> 0,
                 filled     |-> FALSE,
                 buffer     |-> [j \in 0 .. 2 ^ trace.history_log_2 - 1 |-> 0]]
  IN  /\ trace.made <=> trace.attempts = need + 1
      /\ ~trace.made =>
           /\ trace.attempts <= need
           /\ trace.heap.live = {}
           /\ enc = Idle /\ dec = Idle /\ trace.ring.null
      /\ (trace.made /\ trace.kind = "RingBuffer") =>
           /\ trace.heap.live = {"RingBuffer"}
           /\ ~trace.ring.null /\ trace.ring.obj = zeroes
      /\ (trace.made /\ trace.kind = "GKeyComp") =>
           /\ trace.heap.live = {"GKeyComp", "RingBuffer"}
           /\ (enc.status = "None" /\ trace.resets = 0) =>
                enc.comp = [state            |-> GKeyCompState_Progress,
                            in_total         |-> 0,
                            out_total        |-> 0,
                            out_pos          |-> 0,
                            max_read_size    |-> 0,
                            best_read_offset |-> 0,
                            best_read_size   |-> 0,
                            read_offset      |-> 0,
                            read_size        |-> 0,
                            acc              |-> 0,
                            acc_nbits        |-> 0,
                            history_log_2    |-> trace.history_log_2,
                            history          |-> zeroes]
      /\ (trace.made /\ trace.kind = "GKeyDecomp") =>
           /\ trace.heap.live = {"GKeyDecomp", "RingBuffer"}
           /\ (dec.status = "None" /\ trace.resets = 0) =>
                dec.decomp = [state         |-> GKeyDecompState_Progress,
                              in_total      |-> 0,
                              out_total     |-> 0,
                              read_offset   |-> 0,
                              read_size     |-> 0,
                              acc           |-> 0,
                              acc_nbits     |-> 0,
                              literal       |-> 0,
                              history_log_2 |-> trace.history_log_2,
                              history       |-> zeroes]

C25_Witness ==
  /\ trace.kind = "GKeyComp"
  /\ trace.attempts = 2 /\ ~trace.made
  /\ trace.heap.live = {} /\ enc = Idle

(* C26: reset equals fresh.  After gkeycomp_reset or gkeydecomp_reset,     *)
(* from whatever state the codec was in, the codec is in the state in      *)
(* which it was made: state Progress, totals, accumulator, bit count and   *)
(* search variables zero, the ring zero-filled with write_pos = 0 and      *)
(* filled = FALSE, history_log_2 as before; nothing is allocated or freed. *)
(* What it does from then on is what a new codec does: its output, status  *)
(* and retained state are those of a single call of a new codec with the   *)
(* same data.                                                              *)
C26_ResetIsFresh ==
  /\ []((trace.resets = 1 /\ enc.status = "None") =>
          /\ enc.comp = gkeycomp_make(trace.history_log_2)
          /\ enc.comp.state = GKeyCompState_Progress
          /\ enc.comp.in_total = 0 /\ enc.comp.out_total = 0
          /\ enc.comp.acc = 0 /\ enc.comp.acc_nbits = 0
          /\ enc.comp.read_size = 0 /\ enc.comp.read_offset = 0
          /\ enc.comp.best_read_size = 0 /\ enc.comp.best_read_offset = 0
          /\ enc.comp.history.write_pos = 0 /\ ~enc.comp.history.filled
          /\ \A j \in 0 .. 2 ^ trace.history_log_2 - 1 :
               enc.comp.history.buffer[j] = 0)
  /\ []((trace.resets = 1 /\ dec.status = "None") =>
          /\ dec.decomp = gkeydecomp_make(trace.history_log_2)
          /\ dec.decomp.state = GKeyDecompState_Progress
          /\ dec.decomp.in_total = 0 /\ dec.decomp.out_total = 0
          /\ dec.decomp.acc = 0 /\ dec.decomp.acc_nbits = 0
          /\ dec.decomp.read_size = 0 /\ dec.decomp.read_offset = 0
          /\ dec.decomp.history.write_pos = 0 /\ ~dec.decomp.history.filled
          /\ \A j \in 0 .. 2 ^ trace.history_log_2 - 1 :
               dec.decomp.history.buffer[j] = 0)
  /\ []((/\ trace.resets = 1 /\ enc.status = GKeyStatus_Finished
          /\ trace.overflows = 0) =>
          Written(enc) = Written(EncodeAll(trace.history_log_2, src.done)))
  /\ []((/\ trace.resets = 1 /\ trace.approvals < 0 /\ trace.overflows = 0
          /\ dec.status \in {GKeyStatus_OK, GKeyStatus_TruncatedInput,
                              GKeyStatus_BadInput}) =>
          /\ Written(dec) = Written(DecodeAll(trace.history_log_2, src.done))
          /\ dec.status = DecodeAll(trace.history_log_2, src.done).status
          /\ dec.decomp = DecodeAll(trace.history_log_2, src.done).decomp)
  /\ [][(trace.resets = 0 /\ trace'.resets = 1) =>
          /\ trace'.heap = trace.heap
          /\ trace.kind = "GKeyComp" =>
               /\ enc'.comp.history_log_2 = enc.comp.history_log_2
               /\ enc'.comp.history.size = enc.comp.history.size
          /\ trace.kind = "GKeyDecomp" =>
               /\ dec'.decomp.history_log_2 = dec.decomp.history_log_2
               /\ dec'.decomp.history.size = dec.decomp.history.size]_vars

(* A compressor that was reset while a copy token was part written, with   *)
(* bytes in its ring, has since compressed the data again.                 *)
C26_Witness ==
  /\ trace.resets = 1
  /\ enc.status = GKeyStatus_Finished
  /\ trace.overflows = 0
  /\ Len(src.done) >= 3
  /\ Written(enc) = Written(EncodeAll(trace.history_log_2, src.done))

---------------------------------------------------------------------------
(* Specification SpecRing: a ring on its own.  It is made, then written,   *)
(* copied within itself (with no callback, or with the decompressor's      *)
(* writer and an output window of `limit` bytes) and reset, in any order.  *)
(* src holds the ring and the bytes appended since the last reset; trace   *)
(* holds the last call: its arguments, the ring before it, and what        *)
(* RingBuffer_copy returned and its callback received.                     *)

RingCall(op, write_cb, offset, n, limit, before, c, received) ==
  [op |-> op, write_cb |-> write_cb, offset |-> offset, n |-> n,
   limit |-> limit, before |-> before, total |-> c.total,
   copied |-> c.copied, to_copy |-> c.to_copy, received |-> received]

NoCopy == [total |-> 0, copied |-> 0, to_copy |-> 0]

(* The argument the decompressor passes with decomp_ring_writer. *)
RingWriterArg(limit) ==
  [codec  |-> gkeydecomp_make(0),
   params |-> GKeyParameters(<< >>, Buffer(<< >>), limit)]

(* The n bytes at offsets offset .. offset+n-1 from the write position. *)
RingRange(ring, offset, n) ==
  [i \in 1 .. n |-> RingBuffer_read_char(ring, offset + i - 1)]

InitRing ==
  /\ \E k \in 0 .. MaxRingLog2 :
       /\ src = [ring |-> RingBuffer_make(k), appended |-> << >>]
       /\ trace = RingCall("make", "NULL", 0, 0, 0, RingBuffer_make(k),
                           NoCopy, << >>)
  /\ enc = Idle /\ encB = Idle /\ dec = Idle /\ decB = Idle

RingWrite(bytes) ==
  /\ Len(src.appended) + Len(bytes) <= MaxAppended
  /\ src' = [ring     |-> RingBuffer_write(src.ring, MemPtr(bytes),
                                           Len(bytes)),
             appended |-> src.appended \o bytes]
  /\ trace' = RingCall("write", "NULL", 0, Len(bytes), 0, src.ring,
                       NoCopy, << >>)
  /\ UNCHANGED <<enc, encB, dec, decB>>

RingCopyDone(write_cb, offset, n, limit, c) ==
  /\ src' = [ring     |-> c.ring,
             appended |-> src.appended \o RingRange(src.ring, offset,
                                                    c.total)]
  /\ trace' = RingCall("copy", write_cb, offset, n, limit, src.ring, c,
                       IF write_cb = "NULL" THEN << >>
                       ELSE c.arg.params.out_buffer.written)
  /\ UNCHANGED <<enc, encB, dec, decB>>

RingCopy(write_cb, offset, n, limit) ==
  /\ offset + n <= src.ring.size
  /\ Len(src.appended) + n <= MaxAppended
  /\ RingCopyDone(write_cb, offset, n, limit,
                  RingBuffer_copy(src.ring, write_cb, RingWriterArg(limit),
                                  offset, n))

RingReset ==
  /\ src' = [ring |-> RingBuffer_reset(src.ring), appended |-> << >>]
  /\ trace' = RingCall("reset", "NULL", 0, 0, 0, src.ring, NoCopy, << >>)
  /\ UNCHANGED <<enc, encB, dec, decB>>

(* The searches leave the ring alone; trace records the call and its      *)
(* return value.                                                           *)
RingQuery(op, offset, offset2, n, c, result) ==
  [op |-> op, offset |-> offset, offset2 |-> offset2, n |-> n, c |-> c,
   before |-> src.ring, result |-> result]

AbsentByte == 255   \* a byte value that is never written to the ring

RingFind(offset, n, c) ==
  /\ offset + n <= src.ring.size
  /\ trace' = RingQuery("find_char", offset, 0, n, c,
                        RingBuffer_find_char(src.ring, offset, n, c))
  /\ UNCHANGED <<enc, encB, dec, decB, src>>

RingCompare(offset1, offset2, n) ==
  /\ offset1 + n <= src.ring.size
  /\ offset2 + n <= src.ring.size
  /\ trace' = RingQuery("compare", offset1, offset2, n, 0,
                        RingBuffer_compare(src.ring, offset1, offset2, n))
  /\ UNCHANGED <<enc, encB, dec, decB, src>>

NextRing ==
  \/ \E n \in 0 .. LOWEST(MaxWrite, MaxAppended - Len(src.appended)) :
       \E bytes \in [1 .. n -> InputBytes] : RingWrite(bytes)
  \/ \E offset \in 0 .. src.ring.size :
       \E n \in 0 .. src.ring.size - offset :
         RingCopy("NULL", offset, n, n)
  \/ \E offset \in 0 .. src.ring.size :
       \E n \in 0 .. src.ring.size - offset :
         \E limit \in 0 .. n : RingCopy("decomp", offset, n, limit)
  \/ RingReset
  \/ \E offset \in 0 .. src.ring.size :
       \E n \in 0 .. src.ring.size - offset :
         \E c \in InputBytes \cup {AbsentByte} : RingFind(offset, n, c)
  \/ \E offset1 \in 0 .. src.ring.size, offset2 \in 0 .. src.ring.size :
       \E n \in 0 .. src.ring.size - offset1 :
         RingCompare(offset1, offset2, n)

SpecRing == InitRing /\ [][NextRing]_vars

(* C28: ring invariants.  In every state reached by writes and copies      *)
(* since the last reset, write_pos is in [0, C); while filled is false     *)
(* every byte of buffer[write_pos .. C) is zero, so the byte at which      *)
(* RingBuffer_find_char skips its search is zero; and no write or copy     *)
(* takes filled from true back to false.                                   *)
C28_RingInvariants ==
  /\ [](/\ src.ring.size = 2 ^ src.ring.size_log_2
         /\ DOMAIN src.ring.buffer = 0 .. src.ring.size - 1
         /\ src.ring.write_pos \in 0 .. src.ring.size - 1
         /\ ~src.ring.filled =>
              \A j \in src.ring.write_pos .. src.ring.size - 1 :
                src.ring.buffer[j] = 0
         /\ \A offset \in 0 .. src.ring.size - 1 :
              (/\ ~(src.ring.write_pos >
                      (src.ring.write_pos + offset) % src.ring.size)
               /\ ~src.ring.filled) =>
                RingBuffer_read_char(src.ring, offset) = 0)
  /\ [][(src.ring.filled /\ trace'.op \in {"write", "copy"}) =>
          src'.ring.filled]_vars

(* An unfilled ring that holds bytes other than zero below its write       *)
(* position, after a copy.                                                 *)
C28_Witness ==
  /\ trace.op = "copy"
  /\ trace.total >= 1
  /\ ~src.ring.filled
  /\ src.ring.write_pos >= 2
  /\ \E j \in 0 .. src.ring.write_pos - 1 : src.ring.buffer[j] # 0

(* C29: the ring as a function of the appended sequence.  After any        *)
(* writes and copies since the reset that appended N bytes b_0 .. b_(N-1)  *)
(* in total, write_pos = N mod C, filled = (N >= C), and buffer[j] is b_i  *)
(* for the largest i < N with i mod C = j, or 0 if there is none.          *)
C29_RingOfAppended ==
  /\ src.ring.write_pos = Len(src.appended) % src.ring.size
  /\ src.ring.filled = (Len(src.appended) >= src.ring.size)
  /\ \A j \in 0 .. src.ring.size - 1 :
       LET at == {i \in 0 .. Len(src.appended) - 1 :
                    i % src.ring.size = j}
       IN  src.ring.buffer[j] =
             IF at = {} THEN 0
             ELSE src.appended[(CHOOSE i \in at : \A h \in at : h <= i) + 1]

(* A single write of more bytes than the ring holds, the bytes differing,  *)
(* onto a ring that was part full.                                         *)
C29_Witness ==
  /\ trace.op = "write"
  /\ trace.n > src.ring.size
  /\ src.ring.size = 2
  /\ trace.before.write_pos = 1
  /\ trace.n >= 4
  /\ src.appended[Len(src.appended)] # src.appended[Len(src.appended) - 2]

FindCharReference(ring, offset, n, c) ==
  LET hits == {i \in offset .. offset + n - 1 :
                 RingBuffer_read_char(ring, i) = c}
  IN  IF hits = {} THEN SIZE_MAX
      ELSE CHOOSE i \in hits : \A j \in hits : i <= j

(* C31: RingBuffer_find_char(offset, n, c) equals the reference search for *)
(* every ring state, every c and every offset, n >= 0 with                 *)
(* offset + n <= C; in particular it returns SIZE_MAX when n = 0.          *)
C31_FindCharIsReference ==
  trace.op = "find_char" =>
    trace.result = FindCharReference(src.ring, trace.offset, trace.n, trace.c)

(* What the code does: the reference search when n >= 1; with n = 0 a      *)
(* search for the zero byte that starts in the unwritten part of an        *)
(* unfilled ring reports a match at offset.                                *)
C31_FindCharFromOne ==
  trace.op = "find_char" =>
    /\ src.ring = trace.before
    /\ trace.n >= 1 =>
         trace.result =
           FindCharReference(src.ring, trace.offset, trace.n, trace.c)
    /\ trace.n = 0 =>
         trace.result =
           IF /\ trace.c = 0
              /\ ~src.ring.filled
              /\ (src.ring.write_pos + trace.offset) % src.ring.size
                   >= src.ring.write_pos
           THEN trace.offset
           ELSE SIZE_MAX

(* The sign of the lexicographic comparison of two windows of the ring. *)
RECURSIVE CompareReference(_, _, _, _)
CompareReference(ring, offset1, offset2, n) ==
  IF n = 0 THEN 0
  ELSE IF RingBuffer_read_char(ring, offset1)
            < RingBuffer_read_char(ring, offset2) THEN -1
  ELSE IF RingBuffer_read_char(ring, offset1)
            > RingBuffer_read_char(ring, offset2) THEN 1
  ELSE CompareReference(ring, offset1 + 1, offset2 + 1, n - 1)

Sign(x) == IF x < 0 THEN -1 ELSE IF x > 0 THEN 1 ELSE 0

(* C32: RingBuffer_compare(o1, o2, n) with o1 + n <= C and o2 + n <= C:    *)
(* its sign is the sign of the lexicographic comparison, byte by byte as   *)
(* unsigned values, of the n ring bytes from offsets o1 and o2 past the    *)
(* write position; it is zero for n = 0; the ring is unchanged.            *)
C32_CompareIsReference ==
  trace.op = "compare" =>
    /\ Sign(trace.result) =
         CompareReference(src.ring, trace.offset, trace.offset2, trace.n)
    /\ trace.n = 0 => trace.result = 0
    /\ src.ring = trace.before

(* Two windows that both run past the physical end of the buffer, equal    *)
(* up to there and different after it.                                     *)
C32_Witness ==
  /\ trace.op = "compare"
  /\ trace.n >= 2
  /\ trace.offset # trace.offset2
  /\ ((src.ring.write_pos + trace.offset) % src.ring.size) + trace.n
       > src.ring.size
  /\ ((src.ring.write_pos + trace.offset2) % src.ring.size) + trace.n
       > src.ring.size
  /\ RingBuffer_read_char(src.ring, trace.offset)
       = RingBuffer_read_char(src.ring, trace.offset2)
  /\ trace.result # 0

---------------------------------------------------------------------------
(* The output a sequence of tokens stands for.  A copy of size s at offset *)
(* o, met when N bytes have been output, appends for i = 0 .. s-1 the      *)
(* output byte N - 2^k + o + i, or 0 where that index is negative.  The    *)
(* first copy that is not accepted (size 0, or offset + size > 2^k) ends   *)
(* the output.  `early` notes a copy that took bytes from before the start *)
(* of the output as well as bytes of the output; `recent` notes a copy     *)
(* that ended on the most recent byte.                                     *)
CopiedByte(out, start, i) ==
  IF start + i >= 0 THEN out[start + i + 1] ELSE 0

RECURSIVE OutputOfTokens(_, _, _, _)
OutputOfTokens(history_log_2, tokens, i, r) ==
  IF i > Len(tokens) THEN r
  ELSE IF tokens[i].type = "literal"
  THEN OutputOfTokens(history_log_2, tokens, i + 1,
                      [r EXCEPT !.out = Append(@, tokens[i].byte)])
  ELSE IF \/ tokens[i].size = 0
          \/ tokens[i].offset + tokens[i].size > 2 ^ history_log_2
  THEN [r EXCEPT !.bad = TRUE]
  ELSE LET start == Len(r.out) - 2 ^ history_log_2 + tokens[i].offset
       IN  OutputOfTokens(history_log_2, tokens, i + 1,
             [out    |-> r.out \o [j \in 1 .. tokens[i].size |->
                                     CopiedByte(r.out, start, j - 1)],
              bad    |-> FALSE,
              copies |-> r.copies + 1,
              early  |-> r.early \/
                           (/\ start < 0
                            /\ start + tokens[i].size > 0
                            /\ \E j \in 0 .. tokens[i].size - 1 :
                                 CopiedByte(r.out, start, j) # 0),
              recent |-> r.recent \/
                           (/\ start + tokens[i].size = Len(r.out)
                            /\ tokens[i].size >= 2)])

OutputOfStream(history_log_2, y) ==
  OutputOfTokens(history_log_2, Tokens(history_log_2, y, 0), 1,
                 [out |-> << >>, bad |-> FALSE, copies |-> 0,
                  early |-> FALSE, recent |-> FALSE])

(* C33: decoder copy semantics.  What the decompressor has output is       *)
(* always the start of the output its tokens stand for, and is the whole   *)
(* of it once the input supplied has been used up without the window       *)
(* overflowing: every accepted copy token (o, s) met after N output bytes  *)
(* gives as output byte N+i the output byte N - 2^k + o + i, or 0 where    *)
(* that index is negative, and never a byte produced by the same token     *)
(* (o + s <= 2^k).  Having got through its input it reports BadInput       *)
(* exactly when a copy was not accepted.                                   *)
C33_CopySemantics ==
  dec.status \notin {"Idle", "None"} =>
    /\ IsPrefix(Written(dec),
                OutputOfStream(dec.decomp.history_log_2, src.done).out)
    /\ dec.status \in {GKeyStatus_OK, GKeyStatus_TruncatedInput,
                        GKeyStatus_BadInput} =>
         /\ Written(dec) =
              OutputOfStream(dec.decomp.history_log_2, src.done).out
         /\ (dec.status = GKeyStatus_BadInput) =
              OutputOfStream(dec.decomp.history_log_2, src.done).bad

(* A stream has been decoded in which a copy took its first bytes from     *)
(* before the start of the output and a later byte, not zero, from the     *)
(* output itself.                                                          *)
C33_Witness ==
  /\ dec.status = GKeyStatus_OK
  /\ src.rest = << >>
  /\ OutputOfStream(dec.decomp.history_log_2, src.done).early
  /\ Written(dec) = OutputOfStream(dec.decomp.history_log_2, src.done).out

---------------------------------------------------------------------------
(* The calls the compressor makes on its ring.  Each ...Asserts operator   *)
(* follows one part of the code and is true when the assertion at the head *)
(* of every RingBuffer function called in that part holds: offset < size   *)
(* in RingBuffer_read_char; offset + n <= size in RingBuffer_find_char,    *)
(* RingBuffer_compare (both offsets) and RingBuffer_copy.                  *)

(* find_sequence, the search for the first character and the comparison    *)
(* with the previous best sequence. *)
FindSearchAsserts(comp, params, f) ==
  LET max_read_size == FindMaxReadSize(comp.history_log_2, f.read_offset)
      searches == /\ ~(f.best_read_size >= max_read_size)
                  /\ ~(f.best_read_size = 0 /\ f.consumed >= params.in_size)
      found    == RingBuffer_find_char(comp.history, f.read_offset,
                                       max_read_size - f.best_read_size,
                                       FindNewByte(comp, params, f))
      h        == FindFound(f, max_read_size, found)
  IN  searches =>
        /\ f.best_read_size > 0 => f.best_read_offset < comp.history.size
        /\ max_read_size - f.best_read_size >= 1
        /\ f.read_offset + (max_read_size - f.best_read_size)
             <= comp.history.size
        /\ (found # SIZE_MAX /\ h.read_size < h.best_read_size) =>
             /\ h.read_offset + h.best_read_size <= comp.history.size
             /\ h.best_read_offset + h.best_read_size <= comp.history.size

(* find_sequence, the loop that extends a sequence. *)
RECURSIVE FindExtendAsserts(_, _, _)
FindExtendAsserts(comp, params, f) ==
  (f.read_size < f.max_read_size /\ f.consumed < params.in_size) =>
    /\ f.read_offset + f.read_size < comp.history.size
    /\ params.in_buffer[f.consumed + 1] =
         RingBuffer_read_char(comp.history, f.read_offset + f.read_size) =>
         FindExtendAsserts(comp, params,
                           [f EXCEPT !.read_size = f.read_size + 1,
                                     !.consumed  = f.consumed + 1])

RECURSIVE FindLoopAsserts(_, _, _)
FindMatchedAsserts(comp, params, first) ==
  CASE first.exit = "break"    -> TRUE
    [] first.exit = "continue" ->
         FindLoopAsserts(comp, params, FindAdvance(first))
    [] OTHER ->
         /\ FindExtendAsserts(comp, params, first)
         /\ FindExtend(comp, params, first).exit # "finished" =>
              FindLoopAsserts(comp, params,
                FindAdvance(FindReplaceBest(FindExtend(comp, params, first))))

FindLoopAsserts(comp, params, f) ==
  /\ f.read_size = 0 => FindSearchAsserts(comp, params, f)
  /\ FindMatchedAsserts(comp, params,
        IF f.read_size = 0 THEN FindFirst(comp, params, f)
                           ELSE [f EXCEPT !.exit = "extend"])

find_sequence_asserts(comp, params) ==
  FindLoopAsserts(comp, params,
                  [read_offset      |-> comp.read_offset,
                   read_size        |-> comp.read_size,
                   max_read_size    |-> comp.max_read_size,
                   best_read_size   |-> comp.best_read_size,
                   best_read_offset |-> comp.best_read_offset,
                   consumed         |-> 0,
                   exit             |-> "loop"])

(* gkeycomp_compress: what one pass through the switch is entered with     *)
(* when it reaches case FindSequence, and whether it searches.             *)
CompSearchEntry(e) ==
  IF e.state = GKeyCompState_NextSequence
  THEN [e EXCEPT !.comp = [@ EXCEPT !.best_read_size   = 0,
                                    !.best_read_offset = 0,
                                    !.read_size        = 0,
                                    !.read_offset      = 0]]
  ELSE e

CompSearches(e) ==
  /\ e.state \in {GKeyCompState_NextSequence, GKeyCompState_Progress,
                   GKeyCompState_FindSequence}
  /\ e.state # GKeyCompState_FindSequence =>
       ~(e.params.prog_cb # "NULL" /\ ~CallProgress(e.params).continue)
  /\ ~e.flush

(* The sequence a pass has in hand after case FindSequence: the stored one *)
(* on a flushing call, else what find_sequence leaves.                     *)
CompCandidate(e) ==
  IF e.flush THEN CompSearchEntry(e).comp
  ELSE find_sequence(CompSearchEntry(e).comp, CompSearchEntry(e).params).comp

CompPassAsserts(e) ==
  /\ e.state \in {GKeyCompState_PutOffset, GKeyCompState_PutSize,
                   GKeyCompState_PutBytes} =>
       e.comp.read_offset + e.comp.read_size <= e.comp.history.size
  /\ CompSearches(e) =>
       find_sequence_asserts(CompSearchEntry(e).comp,
                             CompSearchEntry(e).params)
  /\ (CompSearches(e) \/
        (e.flush /\ e.state = GKeyCompState_FindSequence)) =>
       CompCandidate(e).read_offset + CompCandidate(e).read_size
         <= e.comp.history.size - 1

RECURSIVE CompLoopAsserts(_)
CompLoopAsserts(e) ==
  /\ CompPassAsserts(e)
  /\ (CompSwitch(e).status = GKeyStatus_OK /\ CompSwitch(e).input) =>
       CompLoopAsserts(CompSwitch(e))

gkeycomp_compress_asserts(comp, params) ==
  CompLoopAsserts([comp   |-> comp,
                   params |-> params,
                   state  |-> comp.state,
                   status |-> GKeyStatus_OK,
                   flush  |-> params.in_size = 0,
                   input  |-> TRUE])

(* The parameter blocks the next call may be given in the current state. *)
NextCompCalls ==
  IF enc.status = GKeyStatus_BufferOverflow
  THEN {SupplyWindow(enc.params, w) : w \in Windows}
  ELSE IF enc.status = GKeyStatus_Finished
  THEN {SupplyWindow(SupplyInput(enc.params, piece), w) :
          piece \in SeqsUpTo(InputBytes, 1), w \in Windows}
  ELSE IF enc.status \in {"None", GKeyStatus_OK} /\ enc.params.in_size = 0
  THEN {SupplyWindow(SupplyInput(enc.params, Take(src.rest, n)), w) :
          n \in (1 .. LOWEST(MaxPiece, Len(src.rest)))
                  \cup (IF src.rest = << >> THEN {0} ELSE {}),
          w \in Windows}
  ELSE {}

(* C34: the compressor never uses the most recently written byte as the    *)
(* source of a copy.  After every call, a sequence it has committed to     *)
(* (states PutOffset, PutSize, PutBytes) or is part-way through finding    *)
(* (state FindSequence) has read_offset + read_size <= 2^k - 1; and in     *)
(* every call it can be given next, the same holds of the sequence each    *)
(* search ends with, and every call it makes of RingBuffer_find_char,      *)
(* RingBuffer_compare, RingBuffer_read_char and RingBuffer_copy meets      *)
(* that function's assertion (offset + n <= size, offset < size).          *)
C34_NeverNewestByte ==
  enc.status # "Idle" =>
    /\ enc.comp.state \in {GKeyCompState_FindSequence,
                            GKeyCompState_PutOffset, GKeyCompState_PutSize,
                            GKeyCompState_PutBytes} =>
         enc.comp.read_offset + enc.comp.read_size
           <= 2 ^ enc.comp.history_log_2 - 1
    /\ \A params \in NextCompCalls :
         gkeycomp_compress_asserts(enc.comp, params)

(* A copy is being put, after a literal, of a sequence that ends on the    *)
(* last byte but one of the history: the longest it may be.                *)
C34_Witness ==
  /\ enc.status = GKeyStatus_BufferOverflow
  /\ enc.comp.state \in {GKeyCompState_PutOffset, GKeyCompState_PutSize}
  /\ enc.comp.in_total >= 3
  /\ enc.comp.history.write_pos >= 1
  /\ enc.comp.read_size >= 2
  /\ enc.comp.read_offset + enc.comp.read_size
       = 2 ^ enc.comp.history_log_2 - 1

---------------------------------------------------------------------------
(* The longest sequence of the history that the input starts with.         *)
(* MatchLength is how far the input agrees with the ring bytes from offset *)
(* p on, no further than offset 2^k - 2.                                   *)
RECURSIVE MatchLength(_, _, _, _)
MatchLength(input, ring, p, len) ==
  IF /\ len < ring.size - 1 - p
     /\ len < Len(input)
     /\ input[len + 1] = RingBuffer_read_char(ring, p + len)
  THEN MatchLength(input, ring, p, len + 1)
  ELSE len

LongestMatch(input, ring) ==
  LET lengths == {MatchLength(input, ring, p, 0) : p \in 0 .. ring.size - 2}
                   \cup {0}
      longest == CHOOSE n \in lengths : \A m \in lengths : m <= n
      offsets == {p \in 0 .. ring.size - 2 :
                    MatchLength(input, ring, p, 0) = longest} \cup
                 (IF longest = 0 THEN {0} ELSE {})
  IN  [read_size   |-> longest,
       read_offset |-> CHOOSE p \in offsets : \A q \in offsets : p <= q]

(* Where in the input the token being searched for starts: a search that   *)
(* stalled has consumed read_size bytes of it.                             *)
TokenStart(e) ==
  IF e.state = GKeyCompState_FindSequence
  THEN e.comp.in_total - e.comp.read_size
  ELSE e.comp.in_total

(* A pass that searches and commits: what it commits to is the longest     *)
(* match of the input x from the token's start on, at the least offset,    *)
(* and the whole of the sequence has been consumed.                        *)
CompPassLongest(e, x) ==
  LET entry == CompSearchEntry(e)
      found == find_sequence(entry.comp, entry.params)
      want  == LongestMatch(Drop(x, TokenStart(e)), entry.comp.history)
  IN  (CompSearches(e) /\ found.success) =>
        /\ found.comp.read_size = want.read_size
        /\ found.comp.read_offset = want.read_offset
        /\ found.comp.in_total = TokenStart(e) + found.comp.read_size
        /\ found.comp.history = entry.comp.history

RECURSIVE CompLoopLongest(_, _)
CompLoopLongest(e, x) ==
  /\ CompPassLongest(e, x)
  /\ (CompSwitch(e).status = GKeyStatus_OK /\ CompSwitch(e).input) =>
       CompLoopLongest(CompSwitch(e), x)

(* C35: longest match.  In every call the compressor can be given,         *)
(* whenever find_sequence returns true, read_size is the greatest, over    *)
(* the offsets p in [0, 2^k - 1), of the number of bytes for which the     *)
(* input from the token's first byte on agrees with the ring bytes at      *)
(* offsets p, p+1, ..., no more than 2^k - 1 - p; read_offset is the least *)
(* p that attains it; and exactly read_size bytes have been consumed for   *)
(* the token.                                                              *)
C35_LongestMatch ==
  (enc.status \in {"None", GKeyStatus_OK, GKeyStatus_BufferOverflow}) =>
    \A params \in NextCompCalls :
      CompLoopLongest([comp   |-> enc.comp,
                       params |-> params,
                       state  |-> enc.comp.state,
                       status |-> GKeyStatus_OK,
                       flush  |-> params.in_size = 0,
                       input  |-> TRUE],
                      src.done \o src.rest)

(* A token is being put for a sequence of three bytes found at an offset   *)
(* other than the first, after a search that stalled for lack of input     *)
(* and was resumed: a shorter match at a lesser offset was passed over.    *)
C35_Witness ==
  /\ enc.status = GKeyStatus_BufferOverflow
  /\ enc.comp.state \in {GKeyCompState_PutOffset, GKeyCompState_PutSize}
  /\ trace.feeds >= 2
  /\ enc.comp.read_offset >= 1
  /\ enc.comp.read_size >= 2
  /\ LongestMatch(Drop(src.done \o src.rest,
                        enc.comp.in_total - enc.comp.read_size),
                  enc.comp.history) =
       [read_size |-> enc.comp.read_size,
        read_offset |-> enc.comp.read_offset]
  /\ \E q \in 0 .. enc.comp.read_offset - 1 :
       MatchLength(Drop(src.done \o src.rest,
                        enc.comp.in_total - enc.comp.read_size),
                   enc.comp.history, q, 0) \in 1 .. enc.comp.read_size - 1

---------------------------------------------------------------------------
(* C36: the decompressor's accumulator.  After every call acc < 2^acc_nbits *)
(* (the bits above the count are zero).  A call that is left in state      *)
(* GetType is one in which no bit could be read for the type of the next   *)
(* token: the input is used up, acc = 0 and acc_nbits = 0 (the two         *)
(* assertions of that case hold), and the status is OK; TruncatedInput is  *)
(* reported from GetOffset, GetSize or GetByte only.                       *)
C36_DecompAccumulator ==
  dec.status \notin {"Idle", "None"} =>
    /\ dec.decomp.acc < 2 ^ dec.decomp.acc_nbits
    /\ dec.decomp.acc >= 0 /\ dec.decomp.acc_nbits >= 0
    /\ dec.decomp.state = GKeyDecompState_GetType =>
         /\ dec.decomp.acc = 0
         /\ dec.decomp.acc_nbits = 0
         /\ dec.params.in_size = 0
         /\ dec.status = GKeyStatus_OK
    /\ dec.status = GKeyStatus_TruncatedInput =>
         dec.decomp.state \in {GKeyDecompState_GetOffset,
                               GKeyDecompState_GetSize,
                               GKeyDecompState_GetByte}

(* The input ran out exactly at the end of a copy token, after bits had    *)
(* been held over in the accumulator between calls.                        *)
C36_Witness ==
  /\ dec.status = GKeyStatus_OK
  /\ dec.decomp.state = GKeyDecompState_GetType
  /\ dec.decomp.acc_nbits = 0
  /\ dec.decomp.in_total >= 2
  /\ trace.feeds >= 2
  /\ OutputOfStream(dec.decomp.history_log_2, src.done).copies >= 1

---------------------------------------------------------------------------
(* Specification SpecWidth: the accumulators alone, for every              *)
(* history_log_2 that gkeycomp_make and gkeydecomp_make accept.  The       *)
(* compressor calls write_bits in the order of its tokens: 9 bits for a    *)
(* literal; history_log_2 + 1 bits and then GKey_get_read_size_bits bits   *)
(* for a copy; UINT_MAX to flush.  The decompressor calls read_bits for 1  *)
(* bit, then for 8, or for history_log_2 and GKey_get_read_size_bits.      *)
(* The values of the bits are left out (they are all zero); the output     *)
(* window and the input given to a call are any number of bytes up to      *)
(* MaxRoom.  enc and dec hold the bit count, what is called for next, and  *)
(* what the last call found at its assertion: `before` is acc_nbits where  *)
(* write_bits asserts acc_nbits <= ULongMinBit - nbits, or the greatest    *)
(* acc_nbits at which read_bits loaded a byte.                             *)

WidthComp(acc_nbits) == [acc |-> 0, acc_nbits |-> acc_nbits, out_total |-> 0]

WidthDecomp(acc_nbits) == [acc |-> 0, acc_nbits |-> acc_nbits, in_total |-> 0]

InitWidth ==
  /\ \E k \in 0 .. MaxHistoryLog2 :
       \/ /\ enc = [history_log_2 |-> k, next |-> "token", acc_nbits |-> 0,
                     nbits |-> 0, before |-> 0, success |-> TRUE,
                     status |-> "Width"]
          /\ dec = Idle
       \/ /\ dec = [history_log_2 |-> k, next |-> "type", acc_nbits |-> 0,
                     nbits |-> 0, before |-> 0, loads |-> 0,
                     success |-> TRUE, status |-> "Width"]
          /\ enc = Idle
  /\ src = [done |-> << >>, rest |-> << >>]
  /\ trace = CompTrace0
  /\ encB = Idle /\ decB = Idle

(* One call of write_bits: w is its result, drained the result of the same *)
(* call made for no bits, which ends where the assertion is.               *)
WidthWritten(nbits, next, w, drained) ==
  /\ enc' = [enc EXCEPT !.acc_nbits = w.comp.acc_nbits,
                        !.nbits     = IF nbits = UINT_MAX THEN 0 ELSE nbits,
                        !.before    = drained.comp.acc_nbits,
                        !.success   = w.success,
                        !.next      = IF w.success THEN next ELSE @]
  /\ UNCHANGED <<encB, dec, decB, src, trace>>

WidthWrite(nbits, next, room) ==
  WidthWritten(nbits, next,
    write_bits(WidthComp(enc.acc_nbits),
               GKeyParameters(<< >>, Buffer(<< >>), room), nbits, 0),
    write_bits(WidthComp(IF nbits = UINT_MAX
                         THEN WriteBitsPad(enc.acc_nbits)
                         ELSE enc.acc_nbits),
               GKeyParameters(<< >>, Buffer(<< >>), room), 0, 0))

WidthPutByte(room) ==
  /\ enc.status = "Width" /\ enc.next = "token"
  /\ WidthWrite(CHAR_BIT + 1, "token", room)

WidthPutOffset(room) ==
  /\ enc.status = "Width" /\ enc.next = "token"
  /\ WidthWrite(enc.history_log_2 + 1, "size", room)

WidthPutSize(read_offset, room) ==
  /\ enc.status = "Width" /\ enc.next = "size"
  /\ WidthWrite(GKey_get_read_size_bits(enc.history_log_2, read_offset),
                "token", room)

WidthFlush(room) ==
  /\ enc.status = "Width" /\ enc.next \in {"token", "flush"}
  /\ WidthWrite(UINT_MAX, "flush", room)

(* One call of read_bits, given `given` bytes of input. *)
WidthRead(nbits, next, given, r) ==
  /\ dec' = [dec EXCEPT
               !.acc_nbits = r.decomp.acc_nbits,
               !.nbits     = nbits,
               !.loads     = given - r.params.in_size,
               !.before    = IF given - r.params.in_size = 0 THEN 0
                             ELSE (IF r.success
                                   THEN r.decomp.acc_nbits + nbits
                                   ELSE r.decomp.acc_nbits) - CHAR_BIT,
               !.success   = r.success,
               !.next      = IF r.success THEN next ELSE @]
  /\ UNCHANGED <<enc, encB, decB, src, trace>>

WidthReadBits(nbits, next, given) ==
  WidthRead(nbits, next, given,
    read_bits(WidthDecomp(dec.acc_nbits),
              GKeyParameters([i \in 1 .. given |-> 0], Buffer(<< >>), 0),
              nbits))

WidthGetType(next, given) ==
  /\ dec.status = "Width" /\ dec.next = "type"
  /\ WidthReadBits(1, next, given)

WidthGetByte(given) ==
  /\ dec.status = "Width" /\ dec.next = "byte"
  /\ WidthReadBits(CHAR_BIT, "type", given)

WidthGetOffset(given) ==
  /\ dec.status = "Width" /\ dec.next = "offset"
  /\ WidthReadBits(dec.history_log_2, "size", given)

WidthGetSize(read_offset, given) ==
  /\ dec.status = "Width" /\ dec.next = "size"
  /\ WidthReadBits(GKey_get_read_size_bits(dec.history_log_2, read_offset),
                   "type", given)

NextWidth ==
  \/ \E room \in 0 .. MaxRoom : WidthPutByte(room)
  \/ \E room \in 0 .. MaxRoom : WidthPutOffset(room)
  \/ \E room \in 0 .. MaxRoom, upper \in BOOLEAN :
       WidthPutSize(IF upper THEN 2 ^ enc.history_log_2 - 1 ELSE 0, room)
  \/ \E room \in 0 .. MaxRoom : WidthFlush(room)
  \/ \E given \in 0 .. MaxRoom, next \in {"byte", "offset"} :
       WidthGetType(next, given)
  \/ \E given \in 0 .. MaxRoom : WidthGetByte(given)
  \/ \E given \in 0 .. MaxRoom : WidthGetOffset(given)
  \/ \E given \in 0 .. MaxRoom, upper \in BOOLEAN :
       WidthGetSize(IF upper THEN 2 ^ dec.history_log_2 - 1 ELSE 0, given)

SpecWidth == InitWidth /\ [][NextWidth]_vars

(* C37: accumulator width.  For every history_log_2 from 0 to              *)
(* MaxHistoryLog2 = 24, neither bit count ever exceeds 32: where           *)
(* write_bits asserts acc_nbits <= 32 - nbits before it inserts, and where *)
(* read_bits asserts acc_nbits <= 24 before it loads a byte, the assertion *)
(* holds.  With history_log_2 = 9 neither count exceeds 17.                *)
C37_AccumulatorWidth ==
  /\ MaxHistoryLog2 = 24
  /\ enc.status = "Width" =>
       /\ enc.acc_nbits <= ULongMinBit
       /\ enc.success => enc.before <= ULongMinBit - enc.nbits
       /\ enc.history_log_2 = ExampleLog2 => enc.acc_nbits <= 17
  /\ dec.status = "Width" =>
       /\ dec.acc_nbits <= ULongMinBit
       /\ dec.loads >= 1 => dec.before <= ULongMinBit - CHAR_BIT
       /\ dec.history_log_2 = ExampleLog2 => dec.acc_nbits <= 17

(* With the largest history, a copy's offset has been inserted above       *)
(* seven bits left in the accumulator: all 32 bits are in use.             *)
C37_Witness ==
  /\ enc.status = "Width"
  /\ enc.history_log_2 = MaxHistoryLog2
  /\ enc.success
  /\ enc.before = CHAR_BIT - 1
  /\ enc.nbits = MaxHistoryLog2 + 1
  /\ enc.acc_nbits = ULongMinBit

---------------------------------------------------------------------------
(* Specification SpecCodecs: a compressor as in Spec, or a decompressor as *)
(* in SpecDecomp that may also have been given no output buffer.           *)

InitCodecs ==
  \/ InitComp
  \/ /\ \E k \in HistoryLogs, sizing \in BOOLEAN :
          /\ dec = NewDecompressor(k, IF sizing THEN NullBuffer
                                      ELSE Buffer(<< >>))
          /\ \E y \in Streams(k) : src = [done |-> << >>, rest |-> y]
     /\ trace = DecompTrace0
     /\ enc = Idle /\ encB = Idle /\ decB = Idle

NextCodecs == NextComp \/ NextDecomp

SpecCodecs == InitCodecs /\ [][NextCodecs]_vars

(* C38: whenever gkeycomp_compress or gkeydecomp_decompress has returned   *)
(* OK, params->in_size is 0: all the input supplied was consumed.          *)
(* Whenever either has returned BufferOverflow, there is an output buffer  *)
(* and params->out_size is 0.                                              *)
C38_OKAndOverflow ==
  /\ enc.status = GKeyStatus_OK => enc.params.in_size = 0
  /\ dec.status = GKeyStatus_OK => dec.params.in_size = 0
  /\ enc.status = GKeyStatus_BufferOverflow =>
       ~enc.params.out_buffer.null /\ enc.params.out_size = 0
  /\ dec.status = GKeyStatus_BufferOverflow =>
       ~dec.params.out_buffer.null /\ dec.params.out_size = 0

(* A decompressor has filled its window part-way through a copy, with     *)
(* input still to be read.                                                 *)
C38_Witness ==
  /\ dec.status = GKeyStatus_BufferOverflow
  /\ dec.decomp.state = GKeyDecompState_CopyData
  /\ dec.params.out_size = 0
  /\ dec.params.in_size >= 1
  /\ Len(Written(dec)) >= 2

---------------------------------------------------------------------------
(* The stalled search, checked under Spec *)

(* The bits put so far: the bytes written, then the accumulator. *)
CompEmitted(e) ==
  Written(e) \o
    [i \in 1 .. (e.comp.acc_nbits + CHAR_BIT - 1) \div CHAR_BIT |->
       (e.comp.acc \div 256 ^ (i - 1)) % 256]

(* The number of bits of the token that a flush puts for the sequence of   *)
(* a stalled search.                                                       *)
StalledTokenBits(comp) ==
  IF comp.read_size = 0 THEN 0
  ELSE LOWEST(comp.read_size * (CHAR_BIT + 1),
              1 + comp.history_log_2 +
              GKey_get_read_size_bits(comp.history_log_2, comp.read_offset))

(* C39: the stalled search.  Whenever gkeycomp_compress has returned OK    *)
(* with the search stalled (state FindSequence), read_size is the number   *)
(* of input bytes consumed since the last token was put, read_size is at   *)
(* least best_read_size, and those bytes are the ring's bytes at offsets   *)
(* read_offset .. read_offset + read_size - 1.  A flushing call made next  *)
(* consumes nothing, finishes, and puts one token for the sequence (the    *)
(* cheaper of a copy and read_size literals) from which a decompressor     *)
(* reproduces exactly those bytes.                                         *)
C39_StalledSearch ==
  (/\ enc.status = GKeyStatus_OK
   /\ enc.comp.state = GKeyCompState_FindSequence
   /\ trace.after = 0) =>
    LET comp     == enc.comp
        consumed == SubSeq(src.done, comp.in_total - comp.read_size + 1,
                           comp.in_total)
        before   == DecodeAll(comp.history_log_2, CompEmitted(enc))
        flushed  == FlushAll(enc)
        after    == DecodeAll(comp.history_log_2, Written(flushed))
        pos      == CHAR_BIT * Len(Written(enc)) + comp.acc_nbits
    IN  /\ comp.in_total = Len(src.done)
        /\ comp.read_size <= comp.in_total
        /\ comp.read_size >= comp.best_read_size
        /\ consumed = RingRange(comp.history, comp.read_offset,
                                comp.read_size)
        /\ ~enc.params.out_buffer.null =>
             /\ before.decomp.out_total = comp.in_total - comp.read_size
             /\ flushed.status = GKeyStatus_Finished
             /\ flushed.comp.in_total = comp.in_total
             /\ Written(after) = Written(before) \o consumed
             /\ Len(Written(flushed)) =
                  (pos + StalledTokenBits(comp) + CHAR_BIT - 1) \div CHAR_BIT

(* A search is stalled, with input still to come, on a sequence of two or  *)
(* more bytes for which a copy token is cheaper than literals.             *)
C39_Witness ==
  /\ enc.status = GKeyStatus_OK
  /\ enc.comp.state = GKeyCompState_FindSequence
  /\ trace.after = 0
  /\ ~enc.params.out_buffer.null
  /\ enc.comp.read_size >= 2
  /\ StalledTokenBits(enc.comp) < enc.comp.read_size * (CHAR_BIT + 1)
  /\ src.rest # << >>

---------------------------------------------------------------------------
(* The empty match, checked under Spec *)

(* A pass through the switch searches, and find_sequence returns true with *)
(* an empty sequence and no input left.                                    *)
CompEmptyMatch(e) ==
  /\ CompSearches(e)
  /\ find_sequence(CompSearchEntry(e).comp, CompSearchEntry(e).params).success
  /\ CompCandidate(e).read_size = 0
  /\ find_sequence(CompSearchEntry(e).comp,
                   CompSearchEntry(e).params).params.in_size = 0

CompPassEmpty(e) ==
  /\ CompEmptyMatch(e) => e.comp.history_log_2 = 0
  /\ (e.state # GKeyCompState_Flush /\
        CompSwitch(e).state = GKeyCompState_Flush) => e.flush

RECURSIVE CompLoopEmpty(_)
CompLoopEmpty(e) ==
  /\ CompPassEmpty(e)
  /\ (CompSwitch(e).status = GKeyStatus_OK /\ CompSwitch(e).input) =>
       CompLoopEmpty(CompSwitch(e))

(* Some pass of the call takes the branch of the assertion. *)
RECURSIVE CompLoopTakesEmpty(_)
CompLoopTakesEmpty(e) ==
  \/ CompEmptyMatch(e)
  \/ /\ CompSwitch(e).status = GKeyStatus_OK /\ CompSwitch(e).input
     /\ CompLoopTakesEmpty(CompSwitch(e))

CompCallEntry(params) ==
  [comp   |-> enc.comp,
   params |-> params,
   state  |-> enc.comp.state,
   status |-> GKeyStatus_OK,
   flush  |-> params.in_size = 0,
   input  |-> TRUE]

(* C40: the assertion in case FindSequence.  In every call the compressor  *)
(* can be given, whenever a call made with in_size > 0 has find_sequence   *)
(* return true with read_size = 0 while params->in_size is 0,              *)
(* history_log_2 is 0; and the call moves to state Flush only if it was    *)
(* made with in_size = 0.  After every call, a compressor left in state    *)
(* Flush was last called with in_size = 0.                                 *)
C40_EmptyMatchAssert ==
  /\ enc.status # "Idle" =>
       \A params \in NextCompCalls : CompLoopEmpty(CompCallEntry(params))
  /\ (enc.status \in {GKeyStatus_OK, GKeyStatus_BufferOverflow}
        /\ enc.comp.state = GKeyCompState_Flush) => trace.lastFlush

(* With history_log_2 = 0, a compressor that has put two literals is about *)
(* to be given a last byte: the call will put it, search again with no     *)
(* input left, and find the empty match.                                   *)
C40_Witness ==
  /\ enc.status = GKeyStatus_OK
  /\ enc.comp.history_log_2 = 0
  /\ enc.comp.in_total >= 2
  /\ Len(src.rest) = 1
  /\ \E params \in NextCompCalls :
       params.in_size = 1 /\ CompLoopTakesEmpty(CompCallEntry(params))

===========================================================================
